---- MODULE Spec2Model ----
(***************************************************************************)
(* Caching and fallback-decision core of the privacy-policy crawler:       *)
(* the global document cache (global_documents), the global analysis      *)
(* cache (global_analysis_results), the Groq -> Gemini fallback policy     *)
(* and the crawl task that drives one crawl session.                       *)
(***************************************************************************)
EXTENDS Integers, Sequences, FiniteSets, TLC

(***************************************************************************)
(* Bounds of the model.                                                    *)
(***************************************************************************)
NumDocs == 2         \* document pages 1..NumDocs
NumTexts == 2        \* distinct page contents 1..NumTexts
MaxOps == 3          \* cache operations in one behaviour of SpecCache
MaxTicks == 1        \* clock advances in one behaviour
NumWorkers == 2      \* server processes sharing the database (SpecRace)
MaxSessions == 2     \* crawl sessions started in one behaviour
MaxWww == 2          \* leading "www." labels of an entered URL
MaxSlashes == 2      \* trailing slashes of an entered URL
MaxAnchors == 4      \* anchors of an entry page (SpecLinks)
MaxRequests == 2     \* POST /analyze requests in one behaviour of SpecEntry
QuotaPages == 16     \* document pages of the large site (SpecQuota)
RepeatPages == 4     \* document pages of the site crawled again (SpecRepeat)

(***************************************************************************)
(* Program constants.                                                      *)
(***************************************************************************)
CACHE_VALIDITY_DAYS == 30
MAX_GEMINI_USAGE_PER_DAY == 15
REDIS_TTL_DAYS == 30         \* ttl=2592000 seconds
ERROR_MESSAGE_LIMIT == 500   \* str(e)[:500]
TITLE_LIMIT == 500           \* documents.title is String(500)

None == "None"       \* Python's None
NoTime == 0 - 1      \* a timestamp column that is NULL

(***************************************************************************)
(* URLs.  A URL is scheme://[www.]host/path; path 0 is the empty path.     *)
(* There are two sites; document page p lives on site 1 + (p % 2), at     *)
(* path p.                                                                 *)
(***************************************************************************)
Hosts == {1, 2}
Docs == 1..NumDocs
Texts == 1..NumTexts

Url(s, w, h, p) == [scheme |-> s, www |-> w, host |-> h, path |-> p]

\* URLs of document pages, as link extraction yields them.
DocUrl(p) == Url("https", FALSE, 1 + (p % 2), p)
DocUrls == {DocUrl(p) : p \in Docs}

\* Entry-point URLs handed to the document cache as base_url.
BaseArgs == {Url("https", w, h, 0) : w \in BOOLEAN, h \in Hosts}

\* GlobalDocumentService.normalize_base_url: scheme://netloc with a leading
\* "www." removed; the path is dropped.
normalize_base_url(url) == Url(url.scheme, FALSE, url.host, 0)

\* calculate_text_hash: SHA-256 of the text, taken as collision free on Texts.
calculate_text_hash(text) == <<"sha256", text>>

\* len(raw_text.split()): text t stands for a page of 100 * t words.
split_len(text) == 100 * text

DocTypes == {"privacy", "tos", "terms_and_conditions", "terms_of_use"}
Titles == {None, "title"}

\* What a document page looks like to a crawl that found it from entry URL
\* `base`: the type its link was classified as and the page's title.
PageArgs ==
    {[type |-> "privacy", title |-> None, base |-> Url("https", FALSE, 1, 0)],
     [type |-> "tos", title |-> "title", base |-> Url("https", TRUE, 2, 0)]}

(***************************************************************************)
(* State.                                                                  *)
(***************************************************************************)
VARIABLES
    gdocs,       \* rows of table global_documents
    ganalysis,   \* rows of table global_analysis_results
    nextId,      \* next fresh primary key (uuid4)
    now,         \* the clock, in days
    ticks,       \* clock advances so far
    nops,        \* cache operations so far (SpecCache)
    nchanged,    \* per global document id: stores that changed its fingerprint
    wk,          \* per server process: the store_document call it is inside
    settings,    \* app.config.settings: which API keys are set
    world,       \* what the web, the providers, Redis and the database do
    sessions,    \* rows of table crawl_sessions, by session id
    documents,   \* committed rows of table documents
    analysis_results,  \* committed rows of table analysis_results
    task,        \* per session: the locals of its crawl_task
    redis,       \* the Redis cache of provider results
    att,         \* the last analysis attempt, as it went (observation)
    gemini_uses, \* Gemini uses of all crawl tasks today (observation)
    http,        \* the POST /analyze requests so far, as they were answered
    call         \* a call of a pure function: its argument and its results

cacheVars == <<gdocs, ganalysis, nextId, nchanged>>
clockVars == <<now, ticks>>
crawlVars == <<settings, world, sessions, documents, analysis_results, task,
               redis, att, gemini_uses, http, call>>
vars == <<gdocs, ganalysis, nextId, now, ticks, nops, nchanged, wk,
          settings, world, sessions, documents, analysis_results, task,
          redis, att, gemini_uses, http, call>>

Workers == 1..NumWorkers
Idle == [pc |-> "idle"]

(***************************************************************************)
(* Document Cache: GlobalDocumentService.store_document                    *)
(***************************************************************************)
\* db.query(GlobalDocument).filter(document_url == url): the matching rows;
\* .first() takes one of them (no ORDER BY).
DocsByUrl(rows, url) == {r \in rows : r.document_url = url}

\* The row a store writes over an existing one whose content changed.
ChangedDocument(existing, text, title, word_count, t) ==
    [existing EXCEPT
        !.raw_text = text,
        !.text_hash = calculate_text_hash(text),
        !.title = IF title # None THEN title ELSE existing.title,
        !.word_count = IF word_count # 0 THEN word_count ELSE existing.word_count,
        !.version = existing.version + 1,
        !.last_crawled = t,
        !.crawl_status = "fresh"]

\* The row a store writes over an existing one whose content is unchanged.
RefreshedDocument(existing, t) ==
    [existing EXCEPT !.last_crawled = t, !.crawl_status = "fresh"]

\* The row a store inserts when the URL has no row; version defaults to 1.
NewDocument(id, url, type, text, base, title, word_count, t) ==
    [id |-> id,
     base_url |-> normalize_base_url(base),
     document_url |-> url,
     document_type |-> type,
     title |-> title,
     raw_text |-> text,
     text_hash |-> calculate_text_hash(text),
     word_count |-> IF word_count # 0 THEN word_count ELSE split_len(text),
     last_crawled |-> t,
     crawl_status |-> "fresh",
     version |-> 1,
     created_at |-> t]

\* Mutant of UpdatedDocument: a content change that keeps the version.
UpdatedDocument_KeepsVersion(existing, text, title, word_count, t) ==
    IF existing.text_hash # calculate_text_hash(text)
    THEN [ChangedDocument(existing, text, title, word_count, t)
             EXCEPT !.version = existing.version]
    ELSE RefreshedDocument(existing, t)

\* The row store_document leaves for `existing`.
UpdatedDocument(existing, text, title, word_count, t) ==
    IF existing.text_hash # calculate_text_hash(text)
    THEN ChangedDocument(existing, text, title, word_count, t)
    ELSE RefreshedDocument(existing, t)

\* store_document on table `rows`: the possible <<table, returned row>> pairs.
store_document(rows, id, url, type, text, base, title, word_count, t) ==
    IF DocsByUrl(rows, url) # {}
    THEN {<<(rows \ {e}) \cup {UpdatedDocument(e, text, title, word_count, t)},
            UpdatedDocument(e, text, title, word_count, t)>> :
            e \in DocsByUrl(rows, url)}
    ELSE {<<rows \cup {NewDocument(id, url, type, text, base, title, word_count, t)},
            NewDocument(id, url, type, text, base, title, word_count, t)>>}

\* Mutant of mark_as_stale: the row found for the URL is removed.
mark_as_stale_Deletes(rows, url) ==
    IF DocsByUrl(rows, url) # {}
    THEN {rows \ {e} : e \in DocsByUrl(rows, url)}
    ELSE {rows}

\* mark_as_stale: the row found for the URL becomes stale; no row, no change.
mark_as_stale(rows, url) ==
    IF DocsByUrl(rows, url) # {}
    THEN {(rows \ {e}) \cup {[e EXCEPT !.crawl_status = "stale"]} :
            e \in DocsByUrl(rows, url)}
    ELSE {rows}

\* db.delete(doc) followed by db.commit(): GlobalAnalysisResult declares
\* relationship("GlobalDocument", backref="analysis") with the default
\* cascade and without passive_deletes, so the flush first detaches the
\* loaded children by writing NULL into their global_document_id, which the
\* column (nullable=False) refuses; the commit raises and is rolled back.
\* Without children the DELETE goes through.
DeleteFlushes(arows, doc) ==
    \A a \in arows : a.global_document_id # doc.id

\* delete_document(document_id, document_url), each argument a set holding
\* the value or nothing (None): the possible outcomes, the returned flag and
\* the two tables.
delete_document(drows, arows, document_id, document_url) ==
    LET found == IF document_id # {}
                 THEN {d \in drows : d.id \in document_id}
                 ELSE IF document_url # {}
                      THEN {d \in drows : d.document_url \in document_url}
                      ELSE {}
    IN  IF found = {}
        THEN {[ok |-> FALSE, gdocs |-> drows, ganalysis |-> arows]}
        ELSE {IF DeleteFlushes(arows, doc)
              THEN [ok |-> TRUE, gdocs |-> drows \ {doc}, ganalysis |-> arows]
              ELSE [ok |-> FALSE, gdocs |-> drows, ganalysis |-> arows] :
              doc \in found}

(***************************************************************************)
(* Analysis Cache: GlobalAnalysisService                                   *)
(***************************************************************************)
AnalysesByUrl(rows, url) == {a \in rows : a.document_url = url}

\* Mutant of find_analysis: the row of the URL, whatever its text hash.
find_analysis_UrlOnly(rows, url, hash) ==
    {a \in rows : a.document_url = url}

\* find_analysis: a row matching both the URL and the text hash, or None.
find_analysis(rows, url, hash) ==
    {a \in rows : a.document_url = url /\ a.text_hash = hash}

\* The row store_analysis writes over an existing one that it replaces.
ReplacedAnalysis(existing, gdoc_id, hash, data, model, t) ==
    [existing EXCEPT
        !.text_hash = hash,
        !.global_document_id = gdoc_id,
        !.content = data,
        !.analysis_model = model,
        !.updated_at = t]

\* Mutant of UpdatedAnalysis: a replacement that keeps the stored hash.
UpdatedAnalysis_KeepsHash(existing, gdoc_id, hash, data, model, force_replace, t) ==
    IF existing.text_hash # hash \/ force_replace
    THEN [ReplacedAnalysis(existing, gdoc_id, hash, data, model, t)
             EXCEPT !.text_hash = existing.text_hash]
    ELSE [existing EXCEPT !.updated_at = t]

\* Mutant of UpdatedAnalysis: every store replaces the content.
UpdatedAnalysis_AlwaysReplaces(existing, gdoc_id, hash, data, model, force_replace, t) ==
    ReplacedAnalysis(existing, gdoc_id, hash, data, model, t)

\* The row store_analysis leaves for `existing`.
UpdatedAnalysis(existing, gdoc_id, hash, data, model, force_replace, t) ==
    IF existing.text_hash # hash \/ force_replace
    THEN ReplacedAnalysis(existing, gdoc_id, hash, data, model, t)
    ELSE [existing EXCEPT !.updated_at = t]

NewAnalysis(id, gdoc_id, url, hash, data, model) ==
    [id |-> id,
     global_document_id |-> gdoc_id,
     document_url |-> url,
     text_hash |-> hash,
     content |-> data,
     analysis_model |-> model,
     updated_at |-> NoTime]

\* The database's checks on the table after a write: the foreign key to
\* global_documents and the unique index on global_document_id.
AnalysisConstraintsOk(arows, drows) ==
    /\ \A a \in arows : \E d \in drows : d.id = a.global_document_id
    /\ \A a, b \in arows : a.global_document_id = b.global_document_id => a = b

\* store_analysis on table `rows`: the possible resulting tables.
store_analysis(rows, id, gdoc_id, url, hash, data, model, force_replace, t) ==
    IF AnalysesByUrl(rows, url) # {}
    THEN {(rows \ {e}) \cup
            {UpdatedAnalysis(e, gdoc_id, hash, data, model, force_replace, t)} :
            e \in AnalysesByUrl(rows, url)}
    ELSE {rows \cup {NewAnalysis(id, gdoc_id, url, hash, data, model)}}

\* Analysis payloads handed to the cache: the analysis of text `of`, as
\* provider `by` wrote it.
Providers == {"groq", "gemini"}
CacheContents == {[by |-> p, of |-> x] : p \in Providers, x \in Texts}

(***************************************************************************)
(* Exceptions.  An exception is its type, its message, the needles that    *)
(* str(e).lower() contains and the length of str(e).                       *)
(***************************************************************************)
Exception(type, msg, needles, len) ==
    [type |-> type, msg |-> msg, needles |-> needles, len |-> len]

\* What the Groq client raises from chat.completions.create.
GroqRateLimited ==
    Exception("RateLimitError", "Error code: 429 - rate limit reached",
              {"429", "rate limit"}, 80)
GroqUnavailable ==
    Exception("InternalServerError", "Error code: 503 - Service Unavailable",
              {"503", "service unavailable", "unavailable"}, 60)
GroqTimedOut ==
    Exception("APITimeoutError", "Request timed out.", {"timed out"}, 18)
GroqUnauthorized ==
    Exception("AuthenticationError", "Error code: 401 - Invalid API Key", {}, 70)
GroqErrors == {GroqRateLimited, GroqUnavailable, GroqTimedOut, GroqUnauthorized}

\* GroqService.__init__ without settings.GROQ_API_KEY.
GroqKeyMissing ==
    Exception("ValueError", "GROQ_API_KEY is not configured.", {}, 75)
\* CrawlerService._fetch_page on the entry page; the message names the cause.
EntryFetchFailed ==
    Exception("ValueError", "Failed to fetch page", {}, 600)
\* SQLAlchemy: a flush that violates a foreign key, and the use of a session
\* whose transaction a failed flush has rolled back.
IntegrityError ==
    Exception("IntegrityError", "violates foreign key constraint", {}, 900)
PendingRollbackError ==
    Exception("PendingRollbackError", "transaction has been rolled back", {}, 300)
\* PostgreSQL refusing a string longer than its column.
DataError ==
    Exception("DataError", "value too long for type character varying(500)", {}, 700)

\* str(e)[:500]
Truncated(e) ==
    [msg |-> e.msg,
     len |-> IF e.len > ERROR_MESSAGE_LIMIT THEN ERROR_MESSAGE_LIMIT ELSE e.len]

(***************************************************************************)
(* The web.  A site is a host; its entry page links to document pages      *)
(* 1..world.pages, whose types cycle through the four document types.      *)
(***************************************************************************)
\* normalize_crawl_url: https, no "www.", no trailing slash.
normalize_crawl_url(url) == Url("https", FALSE, url.host, url.path)

PageUrl(h, i) == Url("https", FALSE, h, i)
TypeOrder == <<"privacy", "tos", "terms_and_conditions", "terms_of_use">>
PageType(i) == TypeOrder[1 + ((i - 1) % 4)]
\* get_page_title: the text of the page's <title>, whatever its length.
LongTitle == "a title of 501 characters"
PageTitle(i) ==
    IF i \in world.long_titles THEN LongTitle
    ELSE IF i % 2 = 0 THEN "title" ELSE None
TitleLen(title) ==
    IF title = None THEN 0 ELSE IF title = LongTitle THEN TITLE_LIMIT + 1 ELSE 5
\* The content of page i: the site publishes a revision of the pages in
\* world.revised on day 1.
PageText(i) ==
    IF i \in world.revised /\ now >= 1
    THEN 1 + ((i + 1) % NumTexts)
    ELSE 1 + (i % NumTexts)

\* A text is known by its length, its number of whitespace-separated words
\* and the number of those longer than four characters.
\* for link in links[:5]                                   # Limit to 5 per type
LinksLimit == 5

\* Mutant of LimitedLinks: every link of the type is processed.
LimitedLinks_All(links) == links

\* links[:5]
LimitedLinks(links) ==
    SubSeq(links, 1, IF Len(links) < LinksLimit THEN Len(links) ELSE LinksLimit)

Text(len, words, long_words) ==
    [len |-> len, words |-> words, long_words |-> long_words]

\* Mutant of is_valid_document: every extracted text is accepted.
is_valid_document_Any(text, min_length) == TRUE

\* is_valid_document(text, min_length=100)
is_valid_document(text, min_length) ==
    IF text.len = 0 \/ text.len < min_length
    THEN FALSE
    ELSE IF text.words < 20
    THEN FALSE
    ELSE IF text.long_words < 10
    THEN FALSE
    ELSE TRUE

\* Text t of a site's page: 100 * t words, half of them long ones.  Text 0
\* is what extract_text gives for a page without text, and the texts below
\* it miss one threshold of is_valid_document by one.
ShortTexts == {0, -1, -2, -3}
TextOf(t) ==
    CASE t = 0 -> Text(0, 0, 0)
      [] t = -1 -> Text(99, 20, 10)
      [] t = -2 -> Text(100, 19, 10)
      [] t = -3 -> Text(100, 20, 9)
      [] OTHER -> Text(600 * t, split_len(t), 50 * t)

\* The order of result['documents']: by document type, then by link.
PageKey(i) == ((i - 1) % 4) * 1000 + i
PagesInOrder(S) ==
    [k \in 1..Cardinality(S) |->
        CHOOSE i \in S : Cardinality({j \in S : PageKey(j) <= PageKey(i)}) = k]

\* _process_single_document: the dictionary of one document page.
CrawledDocument(h, i, text) ==
    [url |-> PageUrl(h, i),
     document_type |-> PageType(i),
     title |-> PageTitle(i),
     text |-> text,
     text_hash |-> calculate_text_hash(text),
     word_count |-> split_len(text)]

(***************************************************************************)
(* Environments: what users request, what the site holds, and how the      *)
(* providers, Redis and the database behave during a run.  A Groq call     *)
(* ends as the set of the exception it raises, {} when it succeeds.        *)
(***************************************************************************)
\* A small site in a run where nothing fails.
CrawlWorld ==
    [entries |-> {Url("https", TRUE, 1, 0)},
     force |-> BOOLEAN,
     pages |-> NumDocs,
     revised |-> {},
     long_titles |-> {},
     max_sessions |-> MaxSessions,
     fetch |-> {"ok"},
     drop |-> {{}},
     blank |-> {{}},
     groq |-> {{}},
     gemini |-> {"ok"},
     gemini_init |-> {TRUE},
     redis_up |-> TRUE,
     db_faults |-> {FALSE}]

\* A large site crawled while Groq is rate limited for the whole run.
QuotaWorld ==
    [entries |-> {Url("https", FALSE, 1, 0)},
     force |-> BOOLEAN,
     pages |-> QuotaPages,
     revised |-> {},
     long_titles |-> {},
     max_sessions |-> MaxSessions,
     fetch |-> {"ok"},
     drop |-> {{}},
     blank |-> {{}},
     groq |-> {{GroqRateLimited}},
     gemini |-> {"ok"},
     gemini_init |-> {TRUE},
     redis_up |-> FALSE,
     db_faults |-> {FALSE}]

AllKeys == [GROQ_API_KEY |-> TRUE, GEMINI_API_KEY |-> TRUE]
Env(s, w) == [settings |-> s, world |-> w]

\* The runs of SpecCrawl: Groq failing in one way while Gemini may fail too;
\* Gemini without a key, or not constructible; the cache stores failing;
\* pages failing to load or holding no text; Groq without a key.
CrawlEnvs ==
    {Env(AllKeys, [CrawlWorld EXCEPT !.groq = {{}, {e}},
                                     !.gemini = {"ok", "error"}]) :
        e \in GroqErrors}
    \cup
    {Env([AllKeys EXCEPT !.GEMINI_API_KEY = FALSE],
         [CrawlWorld EXCEPT !.groq = {{}, {GroqRateLimited}}]),
     Env(AllKeys, [CrawlWorld EXCEPT !.groq = {{}, {GroqTimedOut}},
                                     !.gemini_init = BOOLEAN]),
     Env(AllKeys, [CrawlWorld EXCEPT !.groq = {{}, {GroqUnauthorized}},
                                     !.db_faults = BOOLEAN,
                                     !.redis_up = FALSE]),
     Env(AllKeys, [CrawlWorld EXCEPT !.fetch = {"ok", "fail"},
                                     !.drop = {{}, {1}},
                                     !.blank = {{}, {2}},
                                     !.redis_up = FALSE]),
     Env([AllKeys EXCEPT !.GROQ_API_KEY = FALSE], CrawlWorld)}

\* The runs of SpecQuota: Gemini with or without a key, constructible or
\* not, Redis up or down.
QuotaEnvs ==
    {Env([AllKeys EXCEPT !.GEMINI_API_KEY = key],
         [QuotaWorld EXCEPT !.gemini_init = {ini}, !.redis_up = up]) :
        key \in BOOLEAN, ini \in BOOLEAN, up \in BOOLEAN}

\* The runs of SpecRepeat: a site with a page of each document type is
\* crawled twice, with or without a revision of its first page in between,
\* Redis up or down, and nothing failing.
RepeatEnvs ==
    {Env(AllKeys, [CrawlWorld EXCEPT !.pages = RepeatPages,
                                     !.revised = rv,
                                     !.redis_up = up]) :
        rv \in {{}, {1}}, up \in BOOLEAN}

\* The runs of SpecStale: three crawls of a site without force_refresh, its
\* first page failing to load now and then, nothing else failing.
StaleSessions == 3
StaleEnvs ==
    {Env(AllKeys, [CrawlWorld EXCEPT !.force = {FALSE},
                                     !.max_sessions = StaleSessions,
                                     !.drop = {{}, {1}}])}

\* The runs of SpecTitles: a site whose first or second document page, or
\* neither, has a <title> longer than the title column; nothing else fails.
TitleEnvs ==
    {Env(AllKeys, [CrawlWorld EXCEPT !.long_titles = long]) :
        long \in {{}, {1}, {2}}}

\* No traffic: the caches are driven directly (SpecCache, SpecRace).
QuietWorld == [QuotaWorld EXCEPT !.entries = {}]

\* No analysis attempt yet.
NoAttempt ==
    [s |-> 0, doc |-> 0, url |-> {}, cached |-> FALSE, groq_error |-> {},
     groq_api |-> "none", force_refresh |-> FALSE, analysis_result |-> {},
     usage_before |-> 0,
     usage_after |-> 0, gemini_init |-> "none", gemini_api |-> "none",
     analysis_model |-> "groq", raised |-> {}, stored |-> FALSE,
     recorded |-> FALSE]

\* No pure function is under study.
NoCall == [arg |-> <<>>, out |-> <<>>]

\* The empty database, the clock at day 0, no session, no request answered.
InitState ==
    /\ gdocs = {}
    /\ ganalysis = {}
    /\ nextId = 1
    /\ now = 0
    /\ ticks = 0
    /\ nops = 0
    /\ nchanged = [i \in {} |-> 0]
    /\ wk = [w \in Workers |-> Idle]
    /\ sessions = <<>>
    /\ documents = {}
    /\ analysis_results = {}
    /\ task = <<>>
    /\ redis = {}
    /\ att = NoAttempt
    /\ gemini_uses = 0
    /\ http = <<>>

InitTables ==
    /\ InitState
    /\ call = NoCall

(***************************************************************************)
(* SpecCache: the two caches driven through their service interface, one   *)
(* call at a time.                                                         *)
(***************************************************************************)
InitCache ==
    /\ InitTables
    /\ settings = AllKeys
    /\ world = QuietWorld

\* The clock advances by a day, by the whole validity window, or by a day
\* more than that.
Tick ==
    /\ ticks < MaxTicks
    /\ \E d \in {1, CACHE_VALIDITY_DAYS, CACHE_VALIDITY_DAYS + 1} : now' = now + d
    /\ ticks' = ticks + 1
    /\ UNCHANGED <<cacheVars, nops, wk, crawlVars>>

\* The count of fingerprint-changing stores after a store that left `row`.
CountChange(pre, row, text) ==
    IF pre = {}
    THEN [i \in DOMAIN nchanged \cup {row.id} |->
             IF i = row.id THEN 0 ELSE nchanged[i]]
    ELSE [nchanged EXCEPT ![row.id] =
             IF \E e \in pre : e.id = row.id /\ e.text_hash # calculate_text_hash(text)
             THEN @ + 1 ELSE @]

\* A call store_document(url, type, text, base, title, word_count) that commits.
StoreDocumentCall(url, type, text, base, title, wc) ==
    /\ nops < MaxOps
    /\ \E res \in store_document(gdocs, nextId, url, type, text, base, title, wc, now) :
          /\ gdocs' = res[1]
          /\ nchanged' = CountChange(DocsByUrl(gdocs, url), res[2], text)
    /\ nextId' = nextId + 1
    /\ nops' = nops + 1
    /\ UNCHANGED <<ganalysis, clockVars, wk, crawlVars>>

CallStoreDocument ==
    \E url \in DocUrls, text \in Texts, pg \in PageArgs :
        StoreDocumentCall(url, pg.type, text, pg.base, pg.title, split_len(text))

\* A call store_analysis(...) for a cached document that commits.
StoreAnalysisCall(d, hash, data, force) ==
    /\ nops < MaxOps
    /\ \E res \in store_analysis(ganalysis, nextId, d.id, d.document_url,
                                  hash, data, data.by, force, now) :
          /\ AnalysisConstraintsOk(res, gdocs)
          /\ ganalysis' = res
    /\ nextId' = nextId + 1
    /\ nops' = nops + 1
    /\ UNCHANGED <<gdocs, nchanged, clockVars, wk, crawlVars>>

CallStoreAnalysis ==
    \E d \in gdocs, data \in CacheContents, force \in BOOLEAN :
        StoreAnalysisCall(d, calculate_text_hash(data.of), data, force)

\* A call mark_as_stale(url).
MarkStaleCall(url) ==
    /\ nops < MaxOps
    /\ gdocs' \in mark_as_stale(gdocs, url)
    /\ nops' = nops + 1
    /\ UNCHANGED <<ganalysis, nextId, nchanged, clockVars, wk, crawlVars>>

CallMarkStale == \E url \in DocUrls : MarkStaleCall(url)

\* A call delete_document(document_id, document_url).
DeleteDocumentCall(document_id, document_url) ==
    /\ nops < MaxOps
    /\ \E res \in delete_document(gdocs, ganalysis, document_id, document_url) :
          /\ gdocs' = res.gdocs
          /\ ganalysis' = res.ganalysis
    /\ nops' = nops + 1
    /\ UNCHANGED <<nextId, nchanged, clockVars, wk, crawlVars>>

\* The admin endpoints delete by id or by URL.
DeleteArgs ==
    {<<{i}, {}>> : i \in 1..(MaxOps + 1)} \cup {<<{}, {u}>> : u \in DocUrls}

CallDeleteDocument ==
    \E arg \in DeleteArgs : DeleteDocumentCall(arg[1], arg[2])

NextCache ==
    \/ Tick
    \/ CallStoreDocument
    \/ CallStoreAnalysis
    \/ CallMarkStale
    \/ CallDeleteDocument

SpecCache == InitCache /\ [][NextCache]_vars

(***************************************************************************)
(* SpecRace: crawl tasks of several server processes (uvicorn workers or   *)
(* replicas) share the one database.  Each task has its own SessionLocal() *)
(* session; the SELECT of store_document and its INSERT or UPDATE + COMMIT *)
(* are separate statements, and the statements of different processes      *)
(* interleave.  Nothing in store_document locks the row and the table has  *)
(* no unique constraint on document_url.                                   *)
(***************************************************************************)
\* The UPDATE the ORM flushes: the columns whose value the call changed on
\* the row as it was loaded; the other columns keep what the table holds.
FlushUpdate(current, loaded, written) ==
    [f \in DOMAIN current |->
        IF written[f] # loaded[f] THEN written[f] ELSE current[f]]

\* store_document, lines 110-116: the SELECT ... WHERE document_url = url.
RaceQuery(w) ==
    /\ wk[w].pc = "idle"
    /\ nops < MaxOps
    /\ \E url \in DocUrls, text \in Texts, pg \in PageArgs :
         \E found \in (IF DocsByUrl(gdocs, url) = {} THEN {{}}
                        ELSE {{e} : e \in DocsByUrl(gdocs, url)}) :
            wk' = [wk EXCEPT ![w] = [pc |-> "queried", url |-> url, text |-> text,
                                     pg |-> pg, existing |-> found]]
    /\ nops' = nops + 1
    /\ UNCHANGED <<cacheVars, clockVars, crawlVars>>

\* store_document, lines 118-156: the branch taken on what the SELECT
\* returned, and the commit.
RaceCommit(w) ==
    /\ wk[w].pc = "queried"
    /\ LET c == wk[w] IN
         IF c.existing = {}
         THEN /\ gdocs' = gdocs \cup
                    {NewDocument(nextId, c.url, c.pg.type, c.text, c.pg.base,
                                 c.pg.title, split_len(c.text), now)}
              /\ nextId' = nextId + 1
         ELSE /\ \E e \in c.existing, cur \in gdocs :
                    /\ cur.id = e.id
                    /\ gdocs' = (gdocs \ {cur}) \cup
                         {FlushUpdate(cur, e,
                             UpdatedDocument(e, c.text, c.pg.title, split_len(c.text), now))}
              /\ UNCHANGED nextId
    /\ wk' = [wk EXCEPT ![w] = Idle]
    /\ UNCHANGED <<ganalysis, nchanged, nops, clockVars, crawlVars>>

NextRace ==
    \/ \E w \in Workers : RaceQuery(w)
    \/ \E w \in Workers : RaceCommit(w)
    \/ Tick

SpecRace == InitCache /\ [][NextRace]_vars

\* SpecRewrite: the same processes, started when an earlier crawl has left a
\* row for the first document page in the document cache.
CrawledEarlier ==
    NewDocument(1, DocUrl(1), "privacy", 1, Url("https", FALSE, 1, 0), None,
                split_len(1), 0)

InitRewrite ==
    /\ gdocs = {CrawledEarlier}
    /\ ganalysis = {}
    /\ nextId = 2
    /\ now = 0
    /\ ticks = 0
    /\ nops = 0
    /\ nchanged = [i \in {CrawledEarlier.id} |-> 0]
    /\ wk = [w \in Workers |-> Idle]
    /\ settings = AllKeys
    /\ world = QuietWorld
    /\ sessions = <<>>
    /\ documents = {}
    /\ analysis_results = {}
    /\ task = <<>>
    /\ redis = {}
    /\ att = NoAttempt
    /\ gemini_uses = 0
    /\ http = <<>>
    /\ call = NoCall

SpecRewrite == InitRewrite /\ [][NextRace]_vars

(***************************************************************************)
(* The crawl task (api/v1/crawler.py).  Each crawl_task has its own        *)
(* SQLAlchemy session: rows it has flushed but not committed are in its    *)
(* transaction `tx`; a commit persists them, a rollback expunges them.     *)
(***************************************************************************)
fixedVars == <<nextId, nops, wk, settings, world, http, call>>

SessionIds == 1..Len(sessions)

\* A SQLAlchemy session's open transaction: Document rows flushed in it,
\* AnalysisResult rows added in it, and whether a failed flush has left it
\* inactive until the next rollback.
EmptyTx == [docs |-> {}, ars |-> {}, dead |-> FALSE]

\* The foreign key analysis_results.document_id -> documents.id, as a flush
\* of the transaction's AnalysisResult rows meets it.
FkOk(tx, committed) ==
    \A a \in tx.ars : \E d \in committed \cup tx.docs : d.id = a.document_id

\* uuid4 primary keys: what matters is that they are distinct.
GlobalId(url) == <<"global_documents", url>>
AnalysisId(url) == <<"global_analysis_results", url>>

\* The locals of crawl_task as the task is queued, and what is observed of
\* its run: when it started, whether it fetched anything from the site, and
\* how many cache store errors it swallowed.
NewTask(url, force_refresh) ==
    [pc |-> "queued",
     url |-> url,
     force_refresh |-> force_refresh,
     result |-> <<>>,
     documents_to_analyze |-> <<>>,
     idx |-> 1,
     document_count |-> 0,
     analyzed_count |-> 0,
     gemini_usage_today |-> 0,
     gemini_service |-> FALSE,
     tx |-> EmptyTx,
     entry_failed |-> FALSE,
     invalid |-> {},
     dropped |-> {},
     cache_hit |-> FALSE,
     cached_docs |-> {},
     started |-> NoTime,
     fetched |-> FALSE,
     cache_errors |-> 0]

\* start_crawl: the CrawlSession row it inserts.
NewSession(url) ==
    [url |-> url,
     status |-> "PENDING",
     document_count |-> 0,
     analyzed_count |-> 0,
     error_message |-> {}]

\* The per-requester Document row of document d, k-th of session s.
Document(s, k, d) ==
    [id |-> <<s, k>>,
     session_id |-> s,
     url |-> d.url,
     document_type |-> d.document_type,
     title |-> d.title,
     raw_text |-> d.text,
     text_hash |-> d.text_hash,
     word_count |-> d.word_count]

\* An entry of documents_to_analyze; global_document is {} for None.
DocInfo(document, global_document, d) ==
    [document |-> document.id,
     global_document |-> global_document,
     text |-> d.text,
     url |-> d.url,
     doc_type |-> d.document_type,
     text_hash |-> d.text_hash]

\* The per-requester AnalysisResult row.
AnalysisResult(document_id, analysis_result) ==
    [document_id |-> document_id, content |-> analysis_result]

\* Mutant of find_cached_documents: rows are returned whatever their status.
find_cached_documents_AnyStatus(rows, base_url, document_types, t) ==
    {r \in rows :
        /\ r.base_url = normalize_base_url(base_url)
        /\ r.last_crawled >= t - CACHE_VALIDITY_DAYS
        /\ (document_types # {} => r.document_type \in document_types)}

\* find_cached_documents: fresh rows of the base URL crawled within the
\* validity window, of the given types when document_types is not empty
\* (None and [] are both falsy and mean no filter).
find_cached_documents(rows, base_url, document_types, t) ==
    {r \in rows :
        /\ r.base_url = normalize_base_url(base_url)
        /\ r.last_crawled >= t - CACHE_VALIDITY_DAYS
        /\ r.crawl_status = "fresh"
        /\ (document_types # {} => r.document_type \in document_types)}

\* The document_types crawl_task asks the cache for.
CachedTypes == {"privacy_policy", "terms_of_service", "privacy", "tos"}

\* query.all() on the cached rows, taken in the order of their pages.
RowsInOrder(rows) ==
    [k \in 1..Cardinality(rows) |->
        CHOOSE r \in rows :
            Cardinality({q \in rows : PageKey(q.document_url.path)
                                        <= PageKey(r.document_url.path)}) = k]

\* Mutant of UseCache: the cached documents are never used.
UseCache_Never(cached_docs) == FALSE

\* Line 76, `if cached_docs:`: a non-empty answer of the cache is used.
UseCache(cached_docs) == cached_docs # {}

\* A cached row read as a crawled document (lines 83-107).
FromCache(row) ==
    [url |-> row.document_url,
     document_type |-> row.document_type,
     title |-> row.title,
     text |-> row.raw_text,
     text_hash |-> row.text_hash,
     word_count |-> row.word_count]

(***************************************************************************)
(* Session rows as crawl_task writes them.                                 *)
(***************************************************************************)
\* Mutant of ProcessingSession: the task start that marks the session done.
ProcessingSession_Completes(row) == [row EXCEPT !.status = "COMPLETED"]

ProcessingSession(row) == [row EXCEPT !.status = "PROCESSING"]

CompletedSession(row, document_count, analyzed_count) ==
    [row EXCEPT !.status = "COMPLETED",
                !.document_count = document_count,
                !.analyzed_count = analyzed_count]

FailedSession(row, e) ==
    [row EXCEPT !.status = "FAILED", !.error_message = {Truncated(e)}]

\* The outer `except Exception as e` of crawl_task and its `finally`, for a
\* task with locals l and the committed tables docs and ars: the session is
\* re-queried and marked FAILED; on an inactive transaction the query itself
\* raises and the task ends with the session row as it was.
FailTask(s, e, l, docs, ars) ==
    IF l.tx.dead
    THEN /\ task' = [task EXCEPT ![s] = [l EXCEPT !.pc = "crashed", !.tx = EmptyTx]]
         /\ documents' = docs
         /\ analysis_results' = ars
         /\ UNCHANGED sessions
    ELSE /\ sessions' = [sessions EXCEPT ![s] = FailedSession(@, e)]
         /\ documents' = docs \cup l.tx.docs
         /\ analysis_results' = ars \cup l.tx.ars
         /\ task' = [task EXCEPT ![s] = [l EXCEPT !.pc = "done", !.tx = EmptyTx]]

(***************************************************************************)
(* The providers and their Redis cache.                                    *)
(***************************************************************************)
\* Both services use the key f"analysis:{url}:{md5(text)}".
RedisKey(url, text) == <<"analysis", url, <<"md5", text>>>>

\* get_cache: the value under the key, {} for None; errors give None.
get_cache(rd, key) ==
    IF world.redis_up
    THEN {x.value : x \in {y \in rd : y.key = key /\ now < y.expires}}
    ELSE {}

\* set_cache: SETEX with the 30 day TTL; errors are swallowed.
set_cache(rd, key, value) ==
    IF world.redis_up
    THEN {y \in rd : y.key # key} \cup
             {[key |-> key, value |-> value, expires |-> now + REDIS_TTL_DAYS]}
    ELSE rd

\* GeminiService._fallback_analysis: the placeholder analysis.
fallback_analysis(text) == [by |-> "fallback", of |-> text]

\* GroqService.analyze_document, the API call ending as g (the set of the
\* exception it raised, {} on success): the cached result, the parsed
\* response (cached for later), or the exception re-raised.
GroqAnalyze(rd, text, url, g) ==
    IF get_cache(rd, RedisKey(url, text)) # {}
    THEN [raised |-> {}, result |-> get_cache(rd, RedisKey(url, text)),
          redis |-> rd, api |-> "hit"]
    ELSE IF g = {}
    THEN [raised |-> {}, result |-> {[by |-> "groq", of |-> text]},
          redis |-> set_cache(rd, RedisKey(url, text), [by |-> "groq", of |-> text]),
          api |-> "ok"]
    ELSE [raised |-> g, result |-> {}, redis |-> rd, api |-> "error"]

\* GeminiService.analyze_document, the API call ending as m: the cached
\* result, the parsed response, or on any exception the placeholder of
\* _fallback_analysis.  It never raises.
GeminiAnalyze(rd, text, url, m) ==
    IF get_cache(rd, RedisKey(url, text)) # {}
    THEN [raised |-> {}, result |-> get_cache(rd, RedisKey(url, text)),
          redis |-> rd, api |-> "hit"]
    ELSE IF m = "ok"
    THEN [raised |-> {}, result |-> {[by |-> "gemini", of |-> text]},
          redis |-> set_cache(rd, RedisKey(url, text), [by |-> "gemini", of |-> text]),
          api |-> "ok"]
    ELSE [raised |-> {}, result |-> {fallback_analysis(text)},
          redis |-> rd, api |-> "error"]

(***************************************************************************)
(* The fallback decision (crawl_task, lines 224-296).                      *)
(***************************************************************************)
\* Mutant of IsFallbackError: every Groq error is taken for a fallback error.
IsFallbackError_Any(error_msg) == TRUE

\* Checks 1-3: the message sniffing, on the needles of str(e).lower().
IsFallbackError(error_msg) ==
    IF "429" \in error_msg \/ "rate limit" \in error_msg \/ "quota" \in error_msg
    THEN TRUE
    ELSE IF "503" \in error_msg \/ "service unavailable" \in error_msg
            \/ "unavailable" \in error_msg
    THEN TRUE
    ELSE IF "timeout" \in error_msg \/ "timed out" \in error_msg
    THEN TRUE
    ELSE FALSE

\* Mutant of should_use_gemini: the decision without the daily limit.
should_use_gemini_NoLimit(error_msg, gemini_usage_today, gemini_api_key) ==
    /\ IsFallbackError(error_msg)
    /\ gemini_api_key

\* Checks 1-5: should_use_gemini as the final decision reads it.
should_use_gemini(error_msg, gemini_usage_today, gemini_api_key) ==
    /\ IsFallbackError(error_msg)
    /\ ~(gemini_usage_today >= MAX_GEMINI_USAGE_PER_DAY)
    /\ gemini_api_key

\* The outcome of one analysis as the loop body's locals hold it.
Outcome(l, rd) ==
    [analysis_result |-> {},
     analysis_model |-> "groq",
     used_gemini |-> FALSE,
     gemini_usage_today |-> l.gemini_usage_today,
     gemini_service |-> l.gemini_service,
     raised |-> {},
     redis |-> rd,
     groq_error |-> {},
     groq_api |-> "none",
     gemini_init |-> "none",
     gemini_api |-> "none"]

\* Mutant of TrySecondary: a Gemini success that is not counted.
TrySecondary_NotCounted(o, groq_error, gem) ==
    IF gem.raised # {}
    THEN [o EXCEPT !.raised = {groq_error}, !.gemini_api = gem.api]
    ELSE [o EXCEPT !.analysis_result = gem.result,
                   !.used_gemini = TRUE,
                   !.analysis_model = "gemini",
                   !.redis = gem.redis,
                   !.gemini_api = gem.api]

\* Lines 278-292: the Gemini call gem after Groq raised groq_error.
TrySecondary(o, groq_error, gem) ==
    IF gem.raised # {}
    THEN [o EXCEPT !.raised = {groq_error}, !.gemini_api = gem.api]
    ELSE [o EXCEPT !.analysis_result = gem.result,
                   !.gemini_usage_today = @ + 1,
                   !.used_gemini = TRUE,
                   !.analysis_model = "gemini",
                   !.redis = gem.redis,
                   !.gemini_api = gem.api]

\* Lines 224-296: Groq raised groq_error; ini says whether GeminiService()
\* can be constructed, m how the Gemini API call ends.
Fallback(l, d, o, groq_error, m, ini) ==
    IF ~should_use_gemini(groq_error.needles, l.gemini_usage_today,
                          settings.GEMINI_API_KEY)
    THEN [o EXCEPT !.raised = {groq_error}]
    ELSE IF ~l.gemini_service /\ ~ini
    THEN [o EXCEPT !.raised = {groq_error}, !.gemini_init = "failed"]
    ELSE TrySecondary([o EXCEPT !.gemini_service = TRUE,
                                !.gemini_init = IF l.gemini_service THEN "kept" ELSE "ok"],
                      groq_error, GeminiAnalyze(o.redis, d.text, d.url, m))

\* Lines 213-296: the primary call, then the fallback decision.
AfterGroq(l, d, groq, m, ini) ==
    IF groq.raised = {}
    THEN [Outcome(l, groq.redis) EXCEPT !.analysis_result = groq.result,
                                        !.groq_api = groq.api]
    ELSE Fallback(l, d, [Outcome(l, groq.redis) EXCEPT !.groq_error = groq.raised,
                                                       !.groq_api = groq.api],
                  CHOOSE e \in groq.raised : TRUE, m, ini)

Analyze(l, d, g, m, ini) ==
    AfterGroq(l, d, GroqAnalyze(redis, d.text, d.url, g), m, ini)

\* Lines 196-205: the analysis cache answered with row a.
Cached(l, a) ==
    [Outcome(l, redis) EXCEPT !.analysis_result = {a.content},
                              !.analysis_model = a.analysis_model]

(***************************************************************************)
(* The analysis cache inside the task's transaction.                       *)
(***************************************************************************)
\* Mutant of LookupAnalysis: the row of the URL is found whatever its hash.
LookupAnalysis_AnyHash(l, d) ==
    IF l.force_refresh \/ d.global_document = {}
    THEN [tx |-> l.tx, found |-> {}]
    ELSE [tx |-> l.tx, found |-> AnalysesByUrl(ganalysis, d.url)]

\* Lines 188-194: find_analysis, whose query first flushes the transaction;
\* a failing flush is swallowed by find_analysis and leaves the transaction
\* inactive.  The rows found, and the transaction afterwards.
LookupAnalysis(l, d) ==
    IF l.force_refresh \/ d.global_document = {}
    THEN [tx |-> l.tx, found |-> {}]
    ELSE IF l.tx.dead
    THEN [tx |-> l.tx, found |-> {}]
    ELSE IF ~FkOk(l.tx, documents)
    THEN [tx |-> [l.tx EXCEPT !.dead = TRUE], found |-> {}]
    ELSE [tx |-> l.tx, found |-> find_analysis(ganalysis, d.url, d.text_hash)]

\* The tables and the transaction when store_analysis raised: it has rolled
\* the transaction back.
StoreFailed ==
    [ganalysis |-> ganalysis, analysis_results |-> analysis_results,
     tx |-> EmptyTx, stored |-> FALSE]

\* Lines 299-313: store_analysis for document d in transaction tx; fault
\* says whether the database fails the call.
StoreAnalysis(tx, d, o, force_refresh, fault) ==
    IF tx.dead \/ ~FkOk(tx, documents) \/ fault
    THEN {StoreFailed}
    ELSE {IF AnalysisConstraintsOk(rows, gdocs)
          THEN [ganalysis |-> rows,
                analysis_results |-> analysis_results \cup tx.ars,
                tx |-> EmptyTx, stored |-> TRUE]
          ELSE StoreFailed :
            rows \in UNION {store_analysis(ganalysis, AnalysisId(d.url), gid, d.url,
                                           d.text_hash, data, o.analysis_model,
                                           force_refresh, now) :
                               gid \in d.global_document, data \in o.analysis_result}}

(***************************************************************************)
(* Actions of the crawl.                                                   *)
(***************************************************************************)
\* The tasks of a server share one asyncio event loop.  crawl_task yields
\* only while it awaits crawl_url: the database calls and the calls of the
\* Groq and Gemini clients are synchronous.  So a task that is storing or
\* analysing runs alone, and requests and other tasks wait for it.
LoopFree == \A t \in SessionIds : task[t].pc \notin {"store", "analyze"}

\* start_crawl, lines 384-408: the session is inserted and crawl_task is
\* queued for it, here with either value of its force_refresh parameter.
\* How the handler obtains the flag from a request is PostAnalyze below.
StartCrawl ==
    /\ LoopFree
    /\ Len(sessions) < world.max_sessions
    /\ \E url \in world.entries, force_refresh \in world.force :
          /\ sessions' = Append(sessions, NewSession(normalize_crawl_url(url)))
          /\ task' = Append(task, NewTask(normalize_crawl_url(url), force_refresh))
    /\ UNCHANGED <<cacheVars, clockVars, fixedVars, documents, analysis_results,
                   redis, att, gemini_uses>>

\* crawl_task, lines 45-110: mark the session PROCESSING, ask the document
\* cache, and on a hit create the requester's documents from the cached rows.
TaskBegin(s) ==
    /\ LoopFree
    /\ task[s].pc = "queued"
    /\ sessions' = [sessions EXCEPT ![s] = ProcessingSession(@)]
    /\ \E l \in {task[s]} :
       \E cached_docs \in {IF l.force_refresh THEN {}
                            ELSE find_cached_documents(gdocs, l.url, CachedTypes, now)} :
       \E rows \in {RowsInOrder(cached_docs)} :
       \E docs \in {[k \in 1..Len(rows) |-> Document(s, k, FromCache(rows[k]))]} :
           task' = [task EXCEPT ![s] =
               IF UseCache(cached_docs)
               THEN [l EXCEPT
                       !.pc = "store",
                       !.started = now,
                       !.cache_hit = TRUE,
                       !.cached_docs = cached_docs,
                       !.documents_to_analyze =
                           [k \in 1..Len(rows) |->
                               DocInfo(docs[k], {rows[k].id}, FromCache(rows[k]))],
                       !.tx = [@ EXCEPT !.docs = {docs[k] : k \in 1..Len(rows)}],
                       !.document_count = Len(rows)]
               ELSE [l EXCEPT !.pc = "crawl", !.started = now,
                              !.cached_docs = cached_docs]]
    /\ UNCHANGED <<cacheVars, clockVars, fixedVars, documents, analysis_results,
                   redis, att, gemini_uses>>

\* The pages _process_documents asks for: per type the first links of the
\* entry page, which lists its pages by descending confidence.
ProcessedPages ==
    LET links(t) == PagesInOrder({i \in 1..world.pages : PageType(i) = t})
    IN  LimitedLinks(links(TypeOrder[1])) \o LimitedLinks(links(TypeOrder[2]))
        \o LimitedLinks(links(TypeOrder[3])) \o LimitedLinks(links(TypeOrder[4]))

\* Lines 114-115: crawl_url.  The entry page fails to load and the exception
\* reaches the task's handler, or the documents that could be fetched and
\* validated come back: a page in `drop` fails to load, a page in `blank`
\* yields a short text.
CrawlUrl(s) ==
    /\ LoopFree
    /\ task[s].pc = "crawl"
    /\ \E f \in world.fetch, drop \in world.drop, blank \in world.blank,
          short \in ShortTexts :
          IF f = "fail"
          THEN FailTask(s, EntryFetchFailed,
                        [task[s] EXCEPT !.entry_failed = TRUE, !.fetched = TRUE],
                        documents, analysis_results)
          ELSE /\ \E loaded \in {SelectSeq(ProcessedPages, LAMBDA i : i \notin drop)} :
                  \E invalid \in {{loaded[k] : k \in DOMAIN loaded} \cap
                                  {i \in 1..world.pages :
                                     ~is_valid_document(
                                         TextOf(IF i \in blank THEN short ELSE PageText(i)),
                                         100)}} :
                  \E order \in {SelectSeq(loaded, LAMBDA i : i \notin invalid)} :
                    task' = [task EXCEPT ![s] = [@ EXCEPT
                        !.pc = "store",
                        !.fetched = TRUE,
                        !.invalid = invalid,
                        !.dropped = drop,
                        !.result = [k \in 1..Len(order) |->
                                       CrawledDocument(task[s].url.host, order[k],
                                           IF order[k] \in blank THEN short
                                           ELSE PageText(order[k]))]]]
               /\ UNCHANGED <<sessions, documents, analysis_results>>
    /\ UNCHANGED <<cacheVars, clockVars, fixedVars, redis, att, gemini_uses>>

\* Lines 118-162, one document: store it in the document cache (a failing
\* store has rolled the transaction back and is swallowed), then add and
\* flush the requester's Document.  A title longer than its column fails
\* the store that writes it, and then the flush of the Document at line
\* 149, which no handler but the task's own catches.
StoreDoc(s) ==
    /\ task[s].pc = "store"
    /\ task[s].result # <<>>
    /\ \E fault \in world.db_faults :
          LET l == task[s]
              doc == Head(l.result)
              document == Document(s, l.document_count + 1, doc)
              inactive == [EmptyTx EXCEPT !.dead = TRUE]
              stored == IF fault THEN {}
                        ELSE {res \in store_document(gdocs, GlobalId(doc.url), doc.url,
                                             doc.document_type, doc.text,
                                             normalize_base_url(l.url), doc.title,
                                             doc.word_count, now) :
                                 TitleLen(res[2].title) <= TITLE_LIMIT}
          IN  IF TitleLen(doc.title) > TITLE_LIMIT
              THEN IF stored = {}
                   THEN /\ FailTask(s, DataError,
                                    [l EXCEPT !.tx = inactive, !.cache_errors = @ + 1],
                                    documents, analysis_results)
                        /\ UNCHANGED <<gdocs, nchanged>>
                   ELSE \E res \in stored :
                        /\ gdocs' = res[1]
                        /\ nchanged' = CountChange(DocsByUrl(gdocs, doc.url), res[2],
                                                   doc.text)
                        /\ FailTask(s, DataError, [l EXCEPT !.tx = inactive],
                                    documents \cup l.tx.docs, analysis_results)
              ELSE IF fault
              THEN /\ task' = [task EXCEPT ![s] = [l EXCEPT
                         !.result = Tail(@),
                         !.documents_to_analyze = Append(@, DocInfo(document, {}, doc)),
                         !.tx = [EmptyTx EXCEPT !.docs = {document}],
                         !.document_count = @ + 1,
                         !.cache_errors = @ + 1]]
                   /\ UNCHANGED <<gdocs, nchanged, documents>>
              ELSE \E res \in store_document(gdocs, GlobalId(doc.url), doc.url,
                                             doc.document_type, doc.text,
                                             normalize_base_url(l.url), doc.title,
                                             doc.word_count, now) :
                   /\ gdocs' = res[1]
                   /\ nchanged' = CountChange(DocsByUrl(gdocs, doc.url), res[2], doc.text)
                   /\ documents' = documents \cup l.tx.docs
                   /\ task' = [task EXCEPT ![s] = [l EXCEPT
                         !.result = Tail(@),
                         !.documents_to_analyze =
                             Append(@, DocInfo(document, {res[2].id}, doc)),
                         !.tx = [EmptyTx EXCEPT !.docs = {document}],
                         !.document_count = @ + 1]]
    /\ UNCHANGED <<ganalysis, clockVars, fixedVars, sessions, analysis_results,
                   redis, att, gemini_uses>>

\* Lines 165-176: commit the documents, construct GroqService (which raises
\* without an API key, outside any per-document handler) and start counting
\* Gemini uses from zero.
CommitDocs(s) ==
    /\ task[s].pc = "store"
    /\ task[s].result = <<>>
    /\ LET l == [task[s] EXCEPT !.tx = EmptyTx]
           committed == documents \cup task[s].tx.docs
       IN  IF ~settings.GROQ_API_KEY
           THEN FailTask(s, GroqKeyMissing, l, committed, analysis_results)
           ELSE /\ documents' = committed
                /\ task' = [task EXCEPT ![s] = [l EXCEPT
                       !.pc = "analyze",
                       !.gemini_usage_today = 0,
                       !.gemini_service = FALSE]]
                /\ UNCHANGED <<sessions, analysis_results>>
    /\ UNCHANGED <<cacheVars, clockVars, fixedVars, redis, att, gemini_uses>>

\* What an analysis attempt did: an observation of the loop body's path.
Attempt(s, l, o, cached, stored) ==
    [s |-> s,
     doc |-> l.idx,
     url |-> {l.documents_to_analyze[l.idx].url},
     cached |-> cached,
     groq_error |-> o.groq_error,
     groq_api |-> o.groq_api,
     force_refresh |-> l.force_refresh,
     analysis_result |-> o.analysis_result,
     usage_before |-> l.gemini_usage_today,
     usage_after |-> o.gemini_usage_today,
     gemini_init |-> o.gemini_init,
     gemini_api |-> o.gemini_api,
     analysis_model |-> o.analysis_model,
     raised |-> o.raised,
     stored |-> stored,
     recorded |-> o.raised = {} /\ o.analysis_result # {}]

\* Lines 178-336, one document: look the analysis up in the analysis cache;
\* on a miss call Groq and, if it fails, decide on the Gemini fallback; store
\* a fresh result in the analysis cache; add the requester's AnalysisResult.
\* An error of the attempt is logged and the loop goes on.
AnalyzeDoc(s) ==
    /\ task[s].pc = "analyze"
    /\ task[s].idx <= Len(task[s].documents_to_analyze)
    /\ \E g \in world.groq, m \in world.gemini, ini \in world.gemini_init,
          fault \in world.db_faults :
        \E l \in {task[s]} :
        \E d \in {l.documents_to_analyze[l.idx]} :
        \E look \in {LookupAnalysis(l, d)} :
        \E o \in (IF look.found # {}
                  THEN {Cached(l, a) : a \in look.found}
                  ELSE {Analyze(l, d, g, m, ini)}) :
        \E ok \in {o.raised = {} /\ o.analysis_result # {}} :
        \E st \in (IF look.found = {} /\ ok /\ d.global_document # {}
                   THEN StoreAnalysis(look.tx, d, o, l.force_refresh, fault)
                   ELSE {[ganalysis |-> ganalysis,
                          analysis_results |-> analysis_results,
                          tx |-> look.tx, stored |-> FALSE]}) :
           /\ ganalysis' = st.ganalysis
           /\ analysis_results' = st.analysis_results
           /\ redis' = o.redis
           /\ gemini_uses' = gemini_uses
                               + (o.gemini_usage_today - l.gemini_usage_today)
           /\ att' = Attempt(s, l, o, look.found # {}, st.stored)
           /\ task' = [task EXCEPT ![s] = [l EXCEPT
                 !.idx = @ + 1,
                 !.gemini_usage_today = o.gemini_usage_today,
                 !.gemini_service = o.gemini_service,
                 !.analyzed_count = IF ok THEN @ + 1 ELSE @,
                 !.cache_errors =
                     IF look.found = {} /\ ok /\ d.global_document # {} /\ ~st.stored
                     THEN @ + 1 ELSE @,
                 !.tx = IF ok
                        THEN [st.tx EXCEPT !.ars = @ \cup
                                {AnalysisResult(d.document, x) :
                                     x \in o.analysis_result}]
                        ELSE st.tx]]
    /\ UNCHANGED <<gdocs, nchanged, clockVars, fixedVars, sessions, documents>>

\* Lines 338-343: mark the session COMPLETED with its counts and commit; a
\* commit that fails reaches the task's handler.
Finish(s) ==
    /\ task[s].pc = "analyze"
    /\ task[s].idx > Len(task[s].documents_to_analyze)
    /\ LET l == task[s]
       IN  IF l.tx.dead
           THEN FailTask(s, PendingRollbackError, l, documents, analysis_results)
           ELSE IF ~FkOk(l.tx, documents)
           THEN FailTask(s, IntegrityError, [l EXCEPT !.tx = EmptyTx],
                         documents, analysis_results)
           ELSE /\ sessions' = [sessions EXCEPT ![s] =
                       CompletedSession(@, l.document_count, l.analyzed_count)]
                /\ analysis_results' = analysis_results \cup l.tx.ars
                /\ task' = [task EXCEPT ![s] = [l EXCEPT !.pc = "done", !.tx = EmptyTx]]
                /\ UNCHANGED documents
    /\ UNCHANGED <<cacheVars, clockVars, fixedVars, redis, att, gemini_uses>>

\* A day, the whole validity window, or a day more than that, passes between
\* crawls; the count of today's Gemini uses starts over.
DayPasses ==
    /\ ticks < MaxTicks
    /\ \A s \in SessionIds : task[s].pc \in {"done", "crashed"}
    /\ \E d \in {1, CACHE_VALIDITY_DAYS, CACHE_VALIDITY_DAYS + 1} : now' = now + d
    /\ ticks' = ticks + 1
    /\ gemini_uses' = 0
    /\ UNCHANGED <<cacheVars, nops, wk, settings, world, http, call, sessions, documents,
                   analysis_results, task, redis, att>>

NextCrawl ==
    \/ StartCrawl
    \/ \E s \in SessionIds : TaskBegin(s)
    \/ \E s \in SessionIds : CrawlUrl(s)
    \/ \E s \in SessionIds : StoreDoc(s)
    \/ \E s \in SessionIds : CommitDocs(s)
    \/ \E s \in SessionIds : AnalyzeDoc(s)
    \/ \E s \in SessionIds : Finish(s)
    \/ DayPasses

(***************************************************************************)
(* SpecNormalize: normalize_crawl_url on the text of a URL.  A URL is a    *)
(* sequence of pieces: a scheme with its colon, a slash, a "www." label, a *)
(* host name, a path segment; the capitalised pieces are the same in upper *)
(* case.                                                                   *)
(***************************************************************************)
\* str.lower() of one piece.
Lower(piece) ==
    CASE piece = "WWW." -> "www."
      [] piece = "Host" -> "host"
      [] piece = "HTTP:" -> "http:"
      [] OTHER -> piece

\* url.startswith(prefix)
StartsWith(url, prefix) ==
    Len(url) >= Len(prefix) /\ SubSeq(url, 1, Len(prefix)) = prefix

\* path.rstrip('/')
RECURSIVE RStripSlash(_)
RStripSlash(path) ==
    IF path # <<>> /\ path[Len(path)] = "/"
    THEN RStripSlash(SubSeq(path, 1, Len(path) - 1))
    ELSE path

\* urlparse(url) of a URL that starts with http:// or https://: the netloc
\* runs from behind the two slashes up to the next slash, the path is the
\* rest.
UrlParse(url) ==
    LET rest == SubSeq(url, 4, Len(url))
        cut == IF \E i \in 1..Len(rest) : rest[i] = "/"
               THEN CHOOSE i \in 1..Len(rest) :
                        rest[i] = "/" /\ \A j \in 1..(i - 1) : rest[j] # "/"
               ELSE Len(rest) + 1
    IN  [netloc |-> SubSeq(rest, 1, cut - 1),
         path |-> SubSeq(rest, cut, Len(rest))]

\* normalize_crawl_url on the text of a non-empty URL.
normalize_crawl_url_text(url) ==
    LET with_scheme == IF StartsWith(url, <<"http:", "/", "/">>)
                          \/ StartsWith(url, <<"https:", "/", "/">>)
                       THEN url
                       ELSE <<"https:", "/", "/">> \o url
        parsed == UrlParse(with_scheme)
        lowered == [i \in 1..Len(parsed.netloc) |-> Lower(parsed.netloc[i])]
        netloc == IF StartsWith(lowered, <<"www.">>) THEN Tail(lowered) ELSE lowered
    IN  <<"https:", "/", "/">> \o netloc \o RStripSlash(parsed.path)

\* The URLs a user enters: with or without a scheme (in either case), with
\* up to MaxWww leading "www." labels in either case, a host name in either
\* case, with or without a path, and with up to MaxSlashes trailing slashes.
EnteredUrls ==
    {s \o w \o <<h>> \o p \o [i \in 1..n |-> "/"] :
        s \in {<<>>, <<"http:", "/", "/">>, <<"https:", "/", "/">>,
               <<"HTTP:", "/", "/">>},
        w \in UNION {[1..k -> {"www.", "WWW."}] : k \in 0..MaxWww},
        h \in {"host", "Host"},
        p \in {<<>>, <<"/", "p">>}, n \in 0..MaxSlashes}

InitNormalize ==
    /\ InitState
    /\ settings = AllKeys
    /\ world = QuietWorld
    /\ \E url \in EnteredUrls : call = [arg |-> url, out |-> <<>>]

\* The URL is normalized, and then its normal form is normalized again.
Normalize ==
    /\ Len(call.out) < 2
    /\ call' = [call EXCEPT !.out =
                   Append(@, normalize_crawl_url_text(
                                 IF @ = <<>> THEN call.arg ELSE @[Len(@)]))]
    /\ UNCHANGED <<cacheVars, clockVars, nops, wk, settings, world, sessions,
                   documents, analysis_results, task, redis, att, gemini_uses,
                   http>>

SpecNormalize == InitNormalize /\ [][Normalize]_vars

(***************************************************************************)
(* SpecLinks: the links of an entry page, extracted by get_all_links and   *)
(* classified by LinkFinder.  A link text, a title and an href stand for   *)
(* the character strings they are through what the code asks of them: a    *)
(* text or title is the set of keywords it contains, an href is the set of *)
(* URL patterns that re.search finds in it.                                *)
(***************************************************************************)
DOCUMENT_KEYWORDS ==
    [privacy |-> {"privacy policy", "privacy statement", "privacy notice",
                  "data protection", "personal information", "data privacy",
                  "our privacy", "how we use", "privacy and security policy"},
     tos |-> {"terms of service", "terms and conditions", "terms of use",
              "terms & conditions", "user agreement", "terms agreement",
              "service agreement", "conditions of use", "service terms"},
     terms_and_conditions |-> {"terms and conditions", "terms & conditions",
                               "general terms"},
     terms_of_use |-> {"terms of use", "usage terms", "acceptance terms"}]

URL_PATTERNS ==
    << <<"/privacy", "privacy">>,
       <<"/privacy-policy", "privacy">>,
       <<"/privacy_policy", "privacy">>,
       <<"/terms", "tos">>,
       <<"/terms-of-service", "tos">>,
       <<"/terms_of_service", "tos">>,
       <<"/terms-and-conditions", "terms_and_conditions">>,
       <<"/terms_and_conditions", "terms_and_conditions">>,
       <<"/terms-of-use", "terms_of_use">>,
       <<"/terms_of_use", "terms_of_use">>,
       <<"/legal/privacy", "privacy">>,
       <<"/legal/terms", "tos">>,
       <<"/conditions", "terms_and_conditions">> >>

\* The least number of a non-empty set of numbers.
Least(S) == CHOOSE n \in S : \A m \in S : n <= m

\* _check_url_patterns: the type of the first pattern found in the href, or
\* None ({}).
_check_url_patterns(href) ==
    LET found == {i \in DOMAIN URL_PATTERNS : URL_PATTERNS[i][1] \in href}
    IN  IF found = {} THEN {} ELSE {URL_PATTERNS[Least(found)][2]}

\* _check_keywords: the type with the most keywords in the text, the first
\* such type in the order of DOCUMENT_KEYWORDS (max over the dict), or None.
_check_keywords(text) ==
    LET score(t) == Cardinality(text \cap DOCUMENT_KEYWORDS[t])
        best == {i \in DOMAIN TypeOrder :
                    /\ score(TypeOrder[i]) > 0
                    /\ \A j \in DOMAIN TypeOrder :
                          score(TypeOrder[j]) <= score(TypeOrder[i])}
    IN  IF best = {} THEN {} ELSE {TypeOrder[Least(best)]}

\* _is_valid_link: an http or https URL that matches no skip pattern.
_is_valid_link(url) ==
    url.scheme \in {"http", "https"} /\ ~url.skip

\* _add_link: found_links[doc_type].append((url, text, score))
_add_link(found_links, doc_type, url, text, score) ==
    [found_links EXCEPT ![doc_type] =
        Append(@, [url |-> url, text |-> text, score |-> score])]

\* _analyze_link: found_links after the link has been looked at; the title
\* is link.get('title', '').
_analyze_link(found_links, link) ==
    LET title == IF "title" \in DOMAIN link THEN link.title ELSE {}
    IN
    IF ~_is_valid_link(link.url)
    THEN found_links
    ELSE IF _check_url_patterns(link.href) # {}
    THEN _add_link(found_links, CHOOSE t \in _check_url_patterns(link.href) : TRUE,
                   link.url, link.text, 100)
    ELSE IF _check_keywords(link.text) # {}
    THEN _add_link(found_links, CHOOSE t \in _check_keywords(link.text) : TRUE,
                   link.url, link.text, 80)
    ELSE IF _check_keywords(title) # {}
    THEN _add_link(found_links, CHOOSE t \in _check_keywords(title) : TRUE,
                   link.url, link.text, 70)
    ELSE found_links

\* for link in links: self._analyze_link(link)
RECURSIVE AnalyzeLinks(_, _)
AnalyzeLinks(found_links, links) ==
    IF links = <<>>
    THEN found_links
    ELSE AnalyzeLinks(_analyze_link(found_links, Head(links)), Tail(links))

\* The sequence without its k-th element.
Without(seq, k) == SubSeq(seq, 1, k - 1) \o SubSeq(seq, k + 1, Len(seq))

\* The matches of the highest score.
TopScored(matches) ==
    {k \in DOMAIN matches :
        \A j \in DOMAIN matches : matches[j].score <= matches[k].score}

\* Descending by score, the later of equal scores first.
RECURSIVE DescendingLaterFirst(_)
DescendingLaterFirst(matches) ==
    IF matches = <<>>
    THEN <<>>
    ELSE LET k == CHOOSE n \in TopScored(matches) :
                      \A m \in TopScored(matches) : m <= n
         IN  <<matches[k]>> \o DescendingLaterFirst(Without(matches, k))

\* Descending by score, the earlier of equal scores first.
RECURSIVE DescendingStable(_)
DescendingStable(matches) ==
    IF matches = <<>>
    THEN <<>>
    ELSE <<matches[Least(TopScored(matches))]>>
         \o DescendingStable(Without(matches, Least(TopScored(matches))))

\* Mutant of SortedByScore: among equal scores the later match comes first.
SortedByScore_Unstable(matches) == DescendingLaterFirst(matches)

\* sorted(matches, key=lambda x: x[2], reverse=True): descending by score;
\* the sort is stable, matches of equal score keep their order.
SortedByScore(matches) == DescendingStable(matches)

\* The loop over the sorted matches: a match whose url was seen is skipped.
RECURSIVE Deduplicated(_, _)
Deduplicated(matches, unique_urls) ==
    IF matches = <<>>
    THEN <<>>
    ELSE IF Head(matches).url \in unique_urls
    THEN Deduplicated(Tail(matches), unique_urls)
    ELSE <<[url |-> Head(matches).url, text |-> Head(matches).text,
            confidence_score |-> Head(matches).score]>>
         \o Deduplicated(Tail(matches), unique_urls \cup {Head(matches).url})

\* A LinkFinder's found_links before any link: no type has a match.
NoLinks == [t \in DocTypes |-> <<>>]

\* find_links: the matches of every link, and the result built from them.
find_links(links) ==
    LET found_links == AnalyzeLinks(NoLinks, links)
    IN  [found_links |-> found_links,
         result |-> [t \in DocTypes |->
                        Deduplicated(SortedByScore(found_links[t]), {})]]

\* get_all_links: one dict per anchor, with the keys url, text and href.
get_all_links(anchors) ==
    [i \in DOMAIN anchors |->
        [url |-> anchors[i].url, text |-> anchors[i].text, href |-> anchors[i].href]]

\* The anchors of entry pages: what their href, text and title attribute say.
PageLink(n) == [scheme |-> "https", id |-> n, skip |-> FALSE]
Anchor(url, href, text, title) ==
    [url |-> url, href |-> href, text |-> text, title |-> title]
Anchors ==
    {Anchor(PageLink(n), {"/privacy", "/privacy-policy"}, {}, {}) : n \in 1..2}
    \cup {Anchor(PageLink(n), {}, {"privacy policy"}, {}) : n \in 1..2}
    \cup {Anchor(PageLink(n), {}, {}, {"privacy policy"}) : n \in 1..2}
    \cup {Anchor(PageLink(n), {}, {"terms and conditions"}, {}) : n \in 1..2}
    \cup {Anchor(PageLink(n), {}, {"terms of use", "usage terms"}, {"privacy policy"}) :
             n \in 1..2}
    \cup {Anchor(PageLink(1), {"/terms", "/terms-of-use"}, {"terms of use"}, {}),
          Anchor(PageLink(1), {}, {}, {}),
          Anchor([scheme |-> "mailto", id |-> 0, skip |-> TRUE], {},
                 {"privacy policy"}, {})}

EntryPages == UNION {[1..n -> Anchors] : n \in 0..MaxAnchors}

InitLinks ==
    /\ InitState
    /\ settings = AllKeys
    /\ world = QuietWorld
    /\ \E page \in EntryPages :
          call = [arg |-> page, pc |-> "page", links |-> <<>>,
                  found_links |-> NoLinks, out |-> NoLinks]

\* crawler_service line 65: all_links = get_all_links(soup, url)
GetAllLinks ==
    /\ call.pc = "page"
    /\ call' = [call EXCEPT !.pc = "links", !.links = get_all_links(call.arg)]
    /\ UNCHANGED <<cacheVars, clockVars, nops, wk, settings, world, sessions,
                   documents, analysis_results, task, redis, att, gemini_uses,
                   http>>

\* crawler_service line 70: document_links = find_document_links(all_links, url)
FindDocumentLinks ==
    /\ call.pc = "links"
    /\ \E r \in {find_links(call.links)} :
          call' = [call EXCEPT !.pc = "done",
                               !.found_links = r.found_links,
                               !.out = r.result]
    /\ UNCHANGED <<cacheVars, clockVars, nops, wk, settings, world, sessions,
                   documents, analysis_results, task, redis, att, gemini_uses,
                   http>>

NextLinks ==
    \/ GetAllLinks
    \/ FindDocumentLinks

SpecLinks == InitLinks /\ [][NextLinks]_vars

(***************************************************************************)
(* SpecEntry: POST /analyze as the handler answers it.                     *)
(***************************************************************************)
\* CrawlRequest(BaseModel) declares url and document_types; pydantic drops
\* every other key of the body.
CrawlRequest(body) ==
    [url |-> body.url, document_types |-> {"privacy", "tos"}]

\* request.<name>: the attribute's value, or nothing when the model has no
\* such attribute (AttributeError).
GetAttr(request, name) ==
    IF name \in DOMAIN request THEN {request[name]} ELSE {}

\* Mutant of start_crawl: the flag is taken from the body and never gated.
start_crawl_Ungated(body, user) ==
    [status |-> 200,
     force_refresh |-> IF body.force_refresh = {} THEN {FALSE}
                       ELSE body.force_refresh]

\* start_crawl: the HTTP status and, when crawl_task is queued, the flag it
\* is queued with.  Line 379 reads request.force_refresh outside the try
\* block; an AttributeError there ends the request as a 500.
start_crawl(body, user) ==
    LET force_refresh == GetAttr(CrawlRequest(body), "force_refresh")
    IN  IF force_refresh = {}
        THEN [status |-> 500, force_refresh |-> {}]
        ELSE IF TRUE \in force_refresh /\ ~user.is_admin
             THEN [status |-> 403, force_refresh |-> {}]
             ELSE [status |-> 200, force_refresh |-> force_refresh]

\* One POST /analyze, answered.  The JSON body holds a url and a
\* "force_refresh" key that is absent ({}), true or false; the user is the
\* caller get_current_user supplies.
PostAnalyze ==
    /\ Len(http) < MaxRequests
    /\ \E body \in {[url |-> u, force_refresh |-> f] :
                       u \in world.entries, f \in {{}, {TRUE}, {FALSE}}},
          user \in {[is_admin |-> TRUE], [is_admin |-> FALSE]} :
       \E r \in {start_crawl(body, user)} :
          /\ http' = Append(http,
                 [body |-> body, user |-> user, status |-> r.status,
                  session |-> IF r.force_refresh = {} THEN {}
                              ELSE {Len(sessions) + 1}])
          /\ IF r.force_refresh = {}
             THEN UNCHANGED <<sessions, task>>
             ELSE /\ sessions' = Append(sessions,
                                    NewSession(normalize_crawl_url(body.url)))
                  /\ task' = Append(task,
                                NewTask(normalize_crawl_url(body.url),
                                        TRUE \in r.force_refresh))
    /\ UNCHANGED <<cacheVars, clockVars, nops, wk, settings, world, documents,
                   analysis_results, redis, att, gemini_uses, call>>

InitCrawl ==
    /\ InitTables
    /\ \E e \in CrawlEnvs : settings = e.settings /\ world = e.world

SpecCrawl == InitCrawl /\ [][NextCrawl]_vars

SpecEntry == InitCrawl /\ [][PostAnalyze]_vars

InitQuota ==
    /\ InitTables
    /\ \E e \in QuotaEnvs : settings = e.settings /\ world = e.world

SpecQuota == InitQuota /\ [][NextCrawl]_vars

InitRepeat ==
    /\ InitTables
    /\ \E e \in RepeatEnvs : settings = e.settings /\ world = e.world

SpecRepeat == InitRepeat /\ [][NextCrawl]_vars

InitStale ==
    /\ InitTables
    /\ \E e \in StaleEnvs : settings = e.settings /\ world = e.world

SpecStale == InitStale /\ [][NextCrawl]_vars

InitTitles ==
    /\ InitTables
    /\ \E e \in TitleEnvs : settings = e.settings /\ world = e.world

SpecTitles == InitTitles /\ [][NextCrawl]_vars

(***************************************************************************)
(* Claims about the caches.                                                *)
(***************************************************************************)
\* What one committed store_document(url, text) must have done (C1).
C1_StoreEffect(url, text) ==
    LET pre == DocsByUrl(gdocs, url)
        post == DocsByUrl(gdocs', url)
        h == calculate_text_hash(text)
    IN  /\ Cardinality(post) = 1
        /\ \A r \in post :
              /\ pre = {} => r.version = 1 /\ r.text_hash = h /\ r.raw_text = text
              /\ \A e \in pre :
                    /\ e.text_hash = h =>
                          r = [e EXCEPT !.last_crawled = now, !.crawl_status = "fresh"]
                    /\ e.text_hash # h =>
                          /\ r.version = e.version + 1
                          /\ r.text_hash = h
                          /\ r.raw_text = text
                          /\ r.last_crawled = now

\* C1: the first store of a document_url creates the entry at version 1; a
\* store with the stored fingerprint leaves version, text_hash and raw_text
\* (and every field but the timestamp and the fresh status) as they were; a
\* store with another fingerprint raises version by exactly 1 and sets
\* text_hash to the new fingerprint; so version is always 1 plus the number
\* of stores that changed the fingerprint.
C1_StoreVersioning ==
    /\ [](\A r \in gdocs : r.version = 1 + nchanged[r.id])
    /\ [][\A url \in DocUrls, text \in Texts, pg \in PageArgs :
              StoreDocumentCall(url, pg.type, text, pg.base, pg.title, split_len(text))
                  => C1_StoreEffect(url, text)]_vars

\* C1 witness: an entry that was created, refreshed with the same content
\* on a later day, and then stored once with changed content.
C1_Witness ==
    \E r \in gdocs :
        /\ r.version = 2
        /\ nchanged[r.id] = 1
        /\ nops = 3
        /\ r.last_crawled > r.created_at

\* C2: after a committed store_analysis for a document_url exactly one
\* analysis row exists for that URL and its text_hash is the one just stored,
\* whatever the hashes and force_replace values of the calls so far.
C2_AnalysisExclusive ==
    [][\A d \in gdocs, data \in CacheContents, force \in BOOLEAN :
          StoreAnalysisCall(d, calculate_text_hash(data.of), data, force) =>
              /\ Cardinality(AnalysesByUrl(ganalysis', d.document_url)) = 1
              /\ \A a \in AnalysesByUrl(ganalysis', d.document_url) :
                    a.text_hash = calculate_text_hash(data.of)]_vars

\* C2 witness: an analysis row that a later store overwrote in place, still
\* the only row of its URL.
C2_Witness ==
    \E a \in ganalysis :
        /\ a.updated_at # NoTime
        /\ a.content.by = "gemini"
        /\ AnalysesByUrl(ganalysis, a.document_url) = {a}

\* C3: in every reachable state, whatever the interleaving of the store
\* calls of concurrently running crawl sessions, a document_url has at most
\* one row in the document cache.
C3_AtMostOneDocumentPerUrl ==
    \A url \in DocUrls : Cardinality(DocsByUrl(gdocs, url)) <= 1

(***************************************************************************)
(* Claims about the fallback decision and the crawl session.               *)
(***************************************************************************)
\* The Groq errors that count as rate-limited, temporarily-unavailable or
\* timed-out.
EligibleErrors == {GroqRateLimited, GroqUnavailable, GroqTimedOut}

\* The last attempt ended with a Groq failure of a fallback-eligible class.
EligibleFailure == att.groq_error # {} /\ att.groq_error \subseteq EligibleErrors

\* C4: counted over the analysis attempts of all crawl sessions of the
\* process on one day, the Gemini fallback is used at most
\* MAX_GEMINI_USAGE_PER_DAY (15) times.
C4_DailyCeiling == gemini_uses <= MAX_GEMINI_USAGE_PER_DAY

\* C5: when Groq fails with a rate-limit, unavailable or timeout error, the
\* Gemini key is set, GeminiService can be constructed and the usage counter
\* is below the limit, Gemini is invoked; if its call succeeds the analysis
\* is labelled gemini (also on the analysis cache row it is stored as), the
\* attempt raises nothing and the counter has grown by exactly 1.
C5_FallbackTaken ==
    (/\ EligibleFailure
     /\ settings.GEMINI_API_KEY
     /\ att.gemini_init # "failed"
     /\ att.usage_before < MAX_GEMINI_USAGE_PER_DAY)
    => /\ att.gemini_api # "none"
       /\ att.gemini_api = "ok" =>
             /\ att.analysis_model = "gemini"
             /\ att.usage_after = att.usage_before + 1
             /\ att.raised = {}
             /\ att.recorded
             /\ att.stored =>
                   \A u \in att.url : \A a \in AnalysesByUrl(ganalysis, u) :
                       a.analysis_model = "gemini"

\* C5 witness: the second fallback of a session, after a 503 of Groq, with
\* Gemini answering and the result stored in the analysis cache as gemini.
C5_Witness ==
    /\ att.groq_error = {GroqUnavailable}
    /\ att.gemini_api = "ok"
    /\ att.usage_before = 1
    /\ att.usage_after = 2
    /\ att.analysis_model = "gemini"
    /\ att.stored

\* C6: when Groq fails with an error of no fallback-eligible class, Gemini is
\* neither constructed nor invoked, the usage counter is unchanged, and the
\* attempt ends by raising that same Groq error; nothing is stored or
\* recorded for the document.
C6_FallbackRefused ==
    (att.groq_error # {} /\ att.groq_error \cap EligibleErrors = {})
    => /\ att.gemini_api = "none"
       /\ att.gemini_init = "none"
       /\ att.usage_after = att.usage_before
       /\ att.raised = att.groq_error
       /\ ~att.stored
       /\ ~att.recorded

\* C6 witness: a 401 of Groq ended the attempt for the last document of a
\* session, Gemini having its key; the error raised is the 401 itself.
C6_Witness ==
    /\ att.groq_error = {GroqUnauthorized}
    /\ att.raised = {GroqUnauthorized}
    /\ settings.GEMINI_API_KEY
    /\ att.doc = NumDocs

\* C7: when the Gemini API call of a fallback fails, the attempt ends by
\* raising the original Groq error, the usage counter is not incremented,
\* the result is not labelled gemini, nothing is written to the analysis
\* cache and no AnalysisResult is recorded for the document.
C7_SecondaryFailure ==
    att.gemini_api = "error"
    => /\ att.raised = att.groq_error
       /\ att.usage_after = att.usage_before
       /\ att.analysis_model # "gemini"
       /\ ~att.stored
       /\ ~att.recorded

StatusChanges ==
    {<<"PENDING", "PROCESSING">>, <<"PROCESSING", "COMPLETED">>,
     <<"PROCESSING", "FAILED">>}

\* C9: a session row is created PENDING and its status only ever steps
\* PENDING -> PROCESSING -> COMPLETED or PROCESSING -> FAILED; a status of
\* COMPLETED or FAILED never changes again.
C9_StatusMachine ==
    [][\A s \in DOMAIN sessions' :
          IF s \in DOMAIN sessions
          THEN \/ sessions'[s].status = sessions[s].status
               \/ <<sessions[s].status, sessions'[s].status>> \in StatusChanges
          ELSE sessions'[s].status = "PENDING"]_vars

\* C9 witness: one session ended COMPLETED and a later one FAILED.
C9_Witness ==
    /\ Len(sessions) = 2
    /\ sessions[1].status = "COMPLETED"
    /\ sessions[2].status = "FAILED"

\* C10: a session is FAILED only if its entry page could not be fetched or
\* parsed.
C10_FailedOnlyOnEntryFailure ==
    \A s \in SessionIds : sessions[s].status = "FAILED" => task[s].entry_failed

(***************************************************************************)
(* Claims about errors of the cache stores and about failed sessions.      *)
(***************************************************************************)
\* The requester's rows of session s that are committed.
DocumentsOf(s) == {d \in documents : d.session_id = s}
AnalysisResultsOf(s) == {a \in analysis_results : a.document_id[1] = s}

\* C11: a crawl task that swallowed an error of store_document or of
\* store_analysis still ends with its session COMPLETED, and the Document of
\* every document of the session and the AnalysisResult of every document it
\* analysed are committed, those added before the failing store included.
C11_CacheWriteFailuresSwallowed ==
    \A s \in SessionIds :
        (task[s].pc \in {"done", "crashed"} /\ task[s].cache_errors > 0)
        => /\ sessions[s].status = "COMPLETED"
           /\ \A k \in 1..task[s].document_count :
                 \E d \in DocumentsOf(s) : d.id = <<s, k>>
           /\ Cardinality(AnalysisResultsOf(s)) = task[s].analyzed_count

\* C12: a FAILED session has no Document and no AnalysisResult row, and its
\* error_message is the error text cut to at most ERROR_MESSAGE_LIMIT (500)
\* characters.
C12_FailedHasNoResults ==
    \A s \in SessionIds :
        sessions[s].status = "FAILED"
        => /\ DocumentsOf(s) = {}
           /\ AnalysisResultsOf(s) = {}
           /\ sessions[s].error_message # {}
           /\ \A m \in sessions[s].error_message : m.len <= ERROR_MESSAGE_LIMIT

(***************************************************************************)
(* Claims about cache hits and force-refresh.                              *)
(***************************************************************************)
\* A requester's Document row read back as the document it was made from.
AsCrawled(d) ==
    [url |-> d.url,
     document_type |-> d.document_type,
     title |-> d.title,
     text |-> d.raw_text,
     text_hash |-> d.text_hash,
     word_count |-> d.word_count]

\* C13: a crawl task without force_refresh whose find_cached_documents call
\* returned at least one row never fetches a page (crawl_url is not called),
\* and the documents of its session are exactly the rows that were returned.
C13_CacheHitSkipsFetch ==
    \A s \in SessionIds :
        (/\ task[s].pc # "queued"
         /\ ~task[s].force_refresh
         /\ task[s].cached_docs # {})
        => /\ ~task[s].fetched
           /\ task[s].pc # "crawl"
           /\ task[s].document_count = Cardinality(task[s].cached_docs)
           /\ task[s].pc \in {"analyze", "done", "crashed"} =>
                 {AsCrawled(d) : d \in DocumentsOf(s)}
                     = {FromCache(r) : r \in task[s].cached_docs}

\* C13 witness: a second session served from the two rows the first crawl
\* cached, completed without a fetch.
C13_Witness ==
    /\ Len(sessions) = 2
    /\ sessions[2].status = "COMPLETED"
    /\ Cardinality(task[2].cached_docs) = 2
    /\ ~task[2].fetched
    /\ Cardinality(DocumentsOf(2)) = 2
    /\ task[1].fetched

\* The step in which crawl_task s ran its loop body for one document.
AnalyzedOne(s) == s \in DOMAIN task /\ task'[s].idx = task[s].idx + 1

\* C14: in a crawl task without force_refresh, for a document whose
\* (document_url, text_hash) has a matching row in the analysis cache, the
\* loop body calls neither Groq nor Gemini, leaves the Gemini usage counter
\* and the analysis cache as they were, and the requester's AnalysisResult
\* carries the content of the cached row.
C14_AnalysisHitSkipsProviders ==
    [][\A s \in SessionIds :
          AnalyzedOne(s) =>
              LET l == task[s]
                  d == l.documents_to_analyze[l.idx]
                  hit == find_analysis(ganalysis, d.url, d.text_hash)
              IN  (~l.force_refresh /\ hit # {}) =>
                      /\ att'.groq_api = "none"
                      /\ att'.gemini_api = "none"
                      /\ task'[s].gemini_usage_today = l.gemini_usage_today
                      /\ gemini_uses' = gemini_uses
                      /\ ganalysis' = ganalysis
                      /\ att'.recorded
                      /\ att'.analysis_result \subseteq {a.content : a \in hit}]_vars

\* C15: a crawl task with force_refresh set fetches the entry page whatever
\* the document cache holds; for each document it found, the analysis comes
\* from a call of a provider's API, never from the analysis cache nor from a
\* result cached earlier; and a result stored in the analysis cache
\* overwrites the row of the document.
C15_ForceRefreshBypassesCaches ==
    /\ \A s \in SessionIds :
          (task[s].force_refresh /\ task[s].pc # "queued")
          => /\ ~task[s].cache_hit
             /\ task[s].pc = "crawl" \/ task[s].fetched
    /\ att.force_refresh
       => /\ ~att.cached
          /\ att.groq_api \in {"ok", "error"}
          /\ att.gemini_api # "hit"
          /\ att.stored =>
                \A u \in att.url : \A a \in AnalysesByUrl(ganalysis, u) :
                    a.content \in att.analysis_result

(***************************************************************************)
(* Claims about crawling a site again.                                     *)
(***************************************************************************)
\* Session s crawled a base URL that session t had crawled from the site on
\* an earlier day, no more than the validity window before, the pages being
\* the same and t having ended.
RepeatOf(s, t) ==
    /\ task[t].pc = "done"
    /\ task[t].fetched
    /\ sessions[t].status = "COMPLETED"
    /\ task[s].pc = "done"
    /\ ~task[s].force_refresh
    /\ task[s].url = task[t].url
    /\ task[s].started > task[t].started
    /\ task[s].started - task[t].started < CACHE_VALIDITY_DAYS
    /\ world.revised = {}

\* C16: a crawl without force_refresh of a base URL that an earlier crawl
\* cached documents for (of whichever of the four document types), made
\* within the validity window and with the pages unchanged, fetches nothing
\* and gives the requester the documents that the earlier crawl cached.
C16_RepeatReusesAllCached ==
    \A s, t \in SessionIds :
        RepeatOf(s, t)
        => /\ ~task[s].fetched
           /\ {AsCrawled(d) : d \in DocumentsOf(s)}
                 = {FromCache(r) : r \in {g \in gdocs :
                        g.base_url = normalize_base_url(task[t].url)}}

\* C17: when a crawl without force_refresh has been served from the document
\* cache, each cached row it used still has the version and the text_hash it
\* had, and its last_crawled is the time of that crawl.
C17_RepeatRefreshesTimestamp ==
    \A s \in SessionIds :
        (task[s].pc = "done" /\ ~task[s].force_refresh /\ task[s].cache_hit)
        => \A c \in task[s].cached_docs :
              \E r \in gdocs :
                  /\ r.id = c.id
                  /\ r.version = c.version
                  /\ r.text_hash = c.text_hash
                  /\ r.last_crawled = task[s].started

\* The step in which crawl_task s stored one fetched document in the
\* document cache.
StoredOne(s) ==
    /\ s \in DOMAIN task
    /\ task[s].fetched
    /\ task'[s].document_count = task[s].document_count + 1
    /\ task'[s].cache_errors = task[s].cache_errors

\* Session s has ended a crawl that began after the site revised its first
\* page, which an earlier crawl had cached.
CrawledAfterChange(s) ==
    /\ task[s].pc = "done"
    /\ sessions[s].status = "COMPLETED"
    /\ 1 \in world.revised
    /\ task[s].started >= 1
    /\ \E t \in SessionIds : task[t].pc = "done" /\ task[t].fetched /\ task[t].started = 0

\* The cache rows of the first page of the site of session s are at
\* version 2 with the hash of the revised text, and its one analysis row has
\* that hash.
ChangeCached(s) ==
    LET u == PageUrl(task[s].url.host, 1)
        h == calculate_text_hash(PageText(1))
    IN  /\ \A r \in DocsByUrl(gdocs, u) : r.version = 2 /\ r.text_hash = h
        /\ DocsByUrl(gdocs, u) # {}
        /\ Cardinality(AnalysesByUrl(ganalysis, u)) = 1
        /\ \A a \in AnalysesByUrl(ganalysis, u) : a.text_hash = h

C19_VersionHashUnderRaces ==
    [][\A e \in gdocs : \A r \in gdocs' :
          r.id = e.id =>
              /\ r.version >= e.version
              /\ r.text_hash # e.text_hash => r.version > e.version]_vars

\* C20: a committed store_analysis on a URL that has a row leaves, when the
\* row's text_hash is the given one and force_replace is false, every field
\* of the row as it was except updated_at, whatever analysis was supplied;
\* when the hash differs or force_replace is true, the content, the provider
\* and the text_hash of the row are the supplied ones.
C20_StoreAnalysisFrame ==
    [][\A d \in gdocs, data \in CacheContents, force \in BOOLEAN :
          StoreAnalysisCall(d, calculate_text_hash(data.of), data, force) =>
              \A e \in AnalysesByUrl(ganalysis, d.document_url) :
                  \E r \in ganalysis' :
                      /\ r.id = e.id
                      /\ IF e.text_hash = calculate_text_hash(data.of) /\ ~force
                         THEN r = [e EXCEPT !.updated_at = now]
                         ELSE /\ r.content = data
                              /\ r.analysis_model = data.by
                              /\ r.text_hash = calculate_text_hash(data.of)
                              /\ r.updated_at = now]_vars

\* C20 witness: an analysis row written by Groq on day 0 that a store on
\* day 1 has gone over, still holding Groq's analysis.
C20_Witness ==
    \E a \in ganalysis :
        /\ now = 1
        /\ a.updated_at = 1
        /\ a.content.by = "groq"
        /\ a.analysis_model = "groq"
        /\ nops = MaxOps

(***************************************************************************)
(* Claims about what the caches answer.                                    *)
(***************************************************************************)
\* C21: find_analysis returns only rows whose document_url and text_hash
\* both equal the arguments; and when the loop body of a crawl task takes a
\* document's analysis from the analysis cache, the row it was taken from has
\* the document's URL and the text_hash the task holds for the document.
C21_AnalysisHitMatchesHash ==
    /\ [](\A d \in gdocs, x \in Texts :
             \A a \in find_analysis(ganalysis, d.document_url, calculate_text_hash(x)) :
                 /\ a.document_url = d.document_url
                 /\ a.text_hash = calculate_text_hash(x))
    /\ [][\A s \in SessionIds :
             (AnalyzedOne(s) /\ att'.cached) =>
                 LET l == task[s]
                     d == l.documents_to_analyze[l.idx]
                 IN  \E a \in ganalysis :
                         /\ a.document_url = d.url
                         /\ a.text_hash = d.text_hash
                         /\ att'.analysis_result = {a.content}]_vars

\* C21 witness: after the revision of the first page a crawl fetched the
\* page again, found an analysis row of the URL with the old hash only, and
\* did not take it.
C21_Witness ==
    /\ 1 \in world.revised
    /\ att.s = 2
    /\ att.doc = 1
    /\ ~att.force_refresh
    /\ ~att.cached
    /\ task[2].fetched
    /\ task[1].pc = "done"
    /\ task[2].started > CACHE_VALIDITY_DAYS

TypeArgs == {{}, {"privacy"}, {"tos"}, {"privacy", "tos"}}

\* C23: find_cached_documents(base_url, types) returns exactly the rows
\* whose base_url is the normalized base URL, whose crawl_status is fresh,
\* whose last_crawled is no more than CACHE_VALIDITY_DAYS (30) days back and,
\* when types are given, whose document_type is one of them; a stale row or
\* a row crawled more than 30 days ago is never returned; with no such row
\* the answer is the empty list.
C23_FindCachedDocuments ==
    \A base \in BaseArgs, types \in TypeArgs :
        LET found == find_cached_documents(gdocs, base, types, now)
        IN  /\ found \subseteq gdocs
            /\ \A r \in gdocs :
                  r \in found <=>
                      /\ r.base_url = Url(base.scheme, FALSE, base.host, 0)
                      /\ r.crawl_status = "fresh"
                      /\ now - r.last_crawled <= CACHE_VALIDITY_DAYS
                      /\ (types = {} \/ r.document_type \in types)
            /\ \A r \in found :
                  r.crawl_status # "stale" /\ now - r.last_crawled <= CACHE_VALIDITY_DAYS

\* C23 witness: of two rows of one base URL one has been marked stale; find
\* returns the other one only, and nothing when asked for another type.
C23_Witness ==
    \E r, q \in gdocs :
        /\ r.base_url = q.base_url
        /\ r.crawl_status = "stale"
        /\ q.crawl_status = "fresh"
        /\ find_cached_documents(gdocs, q.base_url, {}, now) = {q}
        /\ find_cached_documents(gdocs, q.base_url, {"tos"}, now) = {}

\* The rows of `rows` with their status left out.
WithoutStatus(rows) ==
    {[id |-> r.id, base_url |-> r.base_url, document_url |-> r.document_url,
      document_type |-> r.document_type, title |-> r.title,
      raw_text |-> r.raw_text, text_hash |-> r.text_hash,
      word_count |-> r.word_count, last_crawled |-> r.last_crawled,
      version |-> r.version, created_at |-> r.created_at] : r \in rows}

DeleteTargets(document_id, document_url) ==
    {d \in gdocs : d.id \in document_id \/ d.document_url \in document_url}

\* C25: delete_document by id or by URL returns True when the row exists,
\* with or without an analysis row, and then neither the document row nor
\* an analysis row of it is left; when no row exists it returns False and
\* both tables are as before.
C25_DeleteRemovesBoth ==
    \A arg \in DeleteArgs :
        \A res \in delete_document(gdocs, ganalysis, arg[1], arg[2]) :
            IF DeleteTargets(arg[1], arg[2]) # {}
            THEN /\ res.ok
                 /\ \A d \in DeleteTargets(arg[1], arg[2]) :
                       /\ d \notin res.gdocs
                       /\ \A a \in res.ganalysis :
                             a.global_document_id # d.id /\ a.document_url # d.document_url
            ELSE /\ ~res.ok
                 /\ res.gdocs = gdocs
                 /\ res.ganalysis = ganalysis

\* A request that asks for a forced refresh without being an admin.
ForcedByNonAdmin(h) ==
    h.body.force_refresh = {TRUE} /\ ~h.user.is_admin

\* C26: no crawl_task is queued with force_refresh true for a requester who
\* is not an admin; a request for a forced refresh from a non-admin ends
\* without a crawl session, and answering it leaves the session table, the
\* tasks, both caches, Redis and the requester's rows as they were.
C26_ForceRefreshGated ==
    /\ [](/\ \A i \in DOMAIN http :
                ForcedByNonAdmin(http[i]) =>
                    http[i].session = {} /\ http[i].status # 200
          /\ \A s \in SessionIds :
                task[s].force_refresh =>
                    \E i \in DOMAIN http :
                        http[i].session = {s} /\ http[i].user.is_admin)
    /\ [][(Len(http') > Len(http) /\ ForcedByNonAdmin(http'[Len(http')])) =>
             UNCHANGED <<sessions, task, cacheVars, redis, documents,
                         analysis_results>>]_vars

\* C26 witness: a non-admin has asked for a forced refresh and an admin has
\* too; there is no session.
C26_Witness ==
    /\ \E i \in DOMAIN http : ForcedByNonAdmin(http[i]) /\ http[i].status # 200
    /\ \E i \in DOMAIN http :
          http[i].body.force_refresh = {TRUE} /\ http[i].user.is_admin
    /\ sessions = <<>>

\* C27: a COMPLETED session's document_count is the number of its
\* persisted Document rows, its analyzed_count the number of its persisted
\* AnalysisResult rows, and analyzed_count is at most document_count.
C27_CountsMatchRows ==
    \A s \in SessionIds :
        sessions[s].status = "COMPLETED" =>
            /\ sessions[s].document_count = Cardinality(DocumentsOf(s))
            /\ sessions[s].analyzed_count = Cardinality(AnalysisResultsOf(s))
            /\ sessions[s].analyzed_count <= sessions[s].document_count

\* C28: normalize_crawl_url is idempotent: for every non-empty input, with
\* or without a scheme, with one or several leading "www." labels, with
\* trailing slashes, in any case, normalizing the normal form gives the
\* normal form again.
C28_NormalizeIdempotent ==
    Len(call.out) = 2 => call.out[2] = call.out[1]

\* The place of the first match equal to the output entry e among `matches`.
FirstPos(matches, e) ==
    Least({k \in DOMAIN matches :
              /\ matches[k].url = e.url
              /\ matches[k].text = e.text
              /\ matches[k].score = e.confidence_score})

\* C29: per document type the result of find_links is sorted by score,
\* highest first; entries of equal score are in the order in which their
\* links were met; a URL is there once, and the entry kept for it is the
\* first of its matches in that order: the first of those with its highest
\* score.
C29_ResultOrder ==
    call.pc = "done" =>
        \A t \in DocTypes :
            LET matches == call.found_links[t]
                out == call.out[t]
            IN  /\ \A i \in DOMAIN out :
                      \E k \in DOMAIN matches :
                          /\ matches[k].url = out[i].url
                          /\ matches[k].text = out[i].text
                          /\ matches[k].score = out[i].confidence_score
                /\ \A k \in DOMAIN matches :
                      \E i \in DOMAIN out : out[i].url = matches[k].url
                /\ \A i, j \in DOMAIN out : i # j => out[i].url # out[j].url
                /\ \A i, j \in DOMAIN out :
                      i < j =>
                          \/ out[i].confidence_score > out[j].confidence_score
                          \/ /\ out[i].confidence_score = out[j].confidence_score
                             /\ FirstPos(matches, out[i]) < FirstPos(matches, out[j])
                /\ \A i \in DOMAIN out, k \in DOMAIN matches :
                      matches[k].url = out[i].url =>
                          \/ matches[k].score < out[i].confidence_score
                          \/ /\ matches[k].score = out[i].confidence_score
                             /\ FirstPos(matches, out[i]) <= k

\* C29 witness: four matches of one type, two URLs, each matched by its
\* text before it is matched by its href, the second URL's href first: the
\* result holds the two href matches, the second URL's first.
C29_Witness ==
    /\ call.pc = "done"
    /\ \E t \in DocTypes :
          /\ Len(call.found_links[t]) = 4
          /\ Len(call.out[t]) = 2
          /\ call.found_links[t][1].score = 80
          /\ call.found_links[t][2].score = 80
          /\ call.found_links[t][1].url # call.found_links[t][2].url
          /\ call.found_links[t][3].url = call.found_links[t][2].url
          /\ call.out[t][1].url = call.found_links[t][2].url
          /\ call.out[t][1].confidence_score = 100
          /\ call.out[t][2].confidence_score = 100

\* The candidate the scoring rule gives an anchor of the page, if any: its
\* type and score.
ClaimedCandidate(a) ==
    IF ~_is_valid_link(a.url)
    THEN {}
    ELSE IF _check_url_patterns(a.href) # {}
    THEN {[type |-> t, score |-> 100] : t \in _check_url_patterns(a.href)}
    ELSE IF _check_keywords(a.text) # {}
    THEN {[type |-> t, score |-> 80] : t \in _check_keywords(a.text)}
    ELSE {[type |-> t, score |-> 70] : t \in _check_keywords(a.title)}

\* The candidates of type t the rule gives the anchors, in page order.
RECURSIVE ClaimedMatches(_, _)
ClaimedMatches(anchors, t) ==
    IF anchors = <<>>
    THEN <<>>
    ELSE (IF \E c \in ClaimedCandidate(Head(anchors)) : c.type = t
          THEN <<[url |-> Head(anchors).url, text |-> Head(anchors).text,
                  score |-> (CHOOSE c \in ClaimedCandidate(Head(anchors)) : TRUE).score]>>
          ELSE <<>>)
         \o ClaimedMatches(Tail(anchors), t)

\* C30: every link of the page that passes the filter yields at most one
\* candidate: with score 100 under the type of the first URL pattern its
\* href matches; else with score 80 under the type with the most keywords
\* in its text; else with score 70 under the type whose keywords its title
\* attribute holds; else none.  So an anchor whose title attribute alone
\* matches is a candidate with score 70.
C30_ScoringPrecedence ==
    call.pc = "done" =>
        \A t \in DocTypes : call.found_links[t] = ClaimedMatches(call.arg, t)

(***************************************************************************)
(* Claims about the crawl of a site and about the analysis payload.        *)
(***************************************************************************)
\* C39: every entry of URL_PATTERNS is effective: a link that passes the
\* filter and whose href is '/terms-and-conditions' or
\* '/terms_and_conditions' is a match of type terms_and_conditions, one
\* whose href is '/terms-of-use' or '/terms_of_use' is a match of type
\* terms_of_use.
C39_EveryPatternEffective ==
    call.pc = "done" =>
        \A i \in DOMAIN call.arg, p \in DOMAIN URL_PATTERNS :
            (/\ _is_valid_link(call.arg[i].url)
             /\ URL_PATTERNS[p][1] \in call.arg[i].href
             /\ URL_PATTERNS[p][1] \in {"/terms-and-conditions", "/terms_and_conditions",
                                        "/terms-of-use", "/terms_of_use"})
            => \E k \in DOMAIN call.found_links[URL_PATTERNS[p][2]] :
                   call.found_links[URL_PATTERNS[p][2]][k].url = call.arg[i].url

(***************************************************************************)
(* SpecFetch: _process_documents over the links of an entry page.         *)
(***************************************************************************)
\* The keys of found_links in the order of their insertion: a type enters
\* with the first link matched for it.
RECURSIVE KeysInOrder(_, _, _)
KeysInOrder(found_links, links, keys) ==
    IF links = <<>>
    THEN keys
    ELSE LET after == _analyze_link(found_links, Head(links))
             new == {t \in DocTypes : found_links[t] = <<>> /\ after[t] # <<>>}
         IN  KeysInOrder(after, Tail(links),
                         IF new = {} THEN keys
                         ELSE Append(keys, CHOOSE t \in new : TRUE))

\* The iterations of the two loops of _process_documents, in order.
RECURSIVE LinksToProcess(_, _)
LinksToProcess(document_links, keys) ==
    IF keys = <<>>
    THEN <<>>
    ELSE LET links == LimitedLinks(document_links[Head(keys)])
         IN  [k \in DOMAIN links |->
                 [url |-> links[k].url, document_type |-> Head(keys)]]
             \o LinksToProcess(document_links, Tail(keys))

\* What a document page serves when it is fetched: texts at and just below
\* each threshold of is_valid_document.
ServedTexts(url) ==
    {Text(100, 20, 10)}
    \cup (CASE url.id = 1 -> {Text(99, 20, 10)}
            [] url.id = 2 -> {Text(100, 19, 10)}
            [] url.id = 3 -> {Text(100, 20, 9)}
            [] url.id = 4 -> {Text(0, 0, 0)}
            [] OTHER -> {})

\* _process_single_document: None ({}) when the page cannot be fetched or
\* its text is not a valid document, the document's dictionary otherwise.
_process_single_document(url, doc_type, fetched) ==
    IF fetched = {}
    THEN {}
    ELSE LET text == CHOOSE t \in fetched : TRUE
         IN  IF ~is_valid_document(text, 100)
             THEN {}
             ELSE {[url |-> url, document_type |-> doc_type, text |-> text]}

\* Entry pages of six links to six pages: each is a privacy link by its
\* href or by its text; the last may be a terms link instead.
FetchLinks == 6
FetchAnchors(n) ==
    {Anchor(PageLink(n), {"/privacy", "/privacy-policy"}, {}, {}),
     Anchor(PageLink(n), {}, {"privacy policy"}, {})}
    \cup (IF n = FetchLinks
          THEN {Anchor(PageLink(n), {}, {"terms and conditions"}, {})}
          ELSE {})
FetchPages == {p \in [1..FetchLinks -> UNION {FetchAnchors(n) : n \in 1..FetchLinks}] :
                  \A n \in 1..FetchLinks : p[n] \in FetchAnchors(n)}

InitFetch ==
    /\ InitState
    /\ settings = AllKeys
    /\ world = QuietWorld
    /\ \E page \in FetchPages :
          call = [arg |-> page, pc |-> "page", links |-> <<>>,
                  found_links |-> NoLinks, out |-> NoLinks,
                  requests |-> <<>>, documents |-> NoLinks]

\* crawler_service lines 202-217, one iteration of the inner loop: the page
\* of the next link is requested; a document that comes back is appended to
\* the list of its type, None or an exception is passed over.
ProcessSingleDocument ==
    /\ call.pc = "done"
    /\ "requests" \in DOMAIN call
    /\ \E todo \in {LinksToProcess(call.out, KeysInOrder(NoLinks, call.links, <<>>))} :
          /\ Len(call.requests) < Len(todo)
          /\ \E link \in {todo[Len(call.requests) + 1]} :
             \E fetched \in {{}} \cup {{t} : t \in ServedTexts(link.url)} :
             \E doc \in {_process_single_document(link.url, link.document_type, fetched)} :
                call' = [call EXCEPT
                    !.requests = Append(@, [url |-> link.url,
                                            document_type |-> link.document_type,
                                            fetched |-> fetched]),
                    !.documents[link.document_type] =
                        IF doc = {} THEN @ ELSE Append(@, CHOOSE d \in doc : TRUE)]
    /\ UNCHANGED <<cacheVars, clockVars, nops, wk, settings, world, sessions,
                   documents, analysis_results, task, redis, att, gemini_uses,
                   http>>

NextFetch ==
    \/ GetAllLinks
    \/ FindDocumentLinks
    \/ ProcessSingleDocument

SpecFetch == InitFetch /\ [][NextFetch]_vars

\* _process_documents has returned: every iteration is over.
ProcessDocumentsReturned ==
    /\ call.pc = "done"
    /\ "requests" \in DOMAIN call
    /\ Len(call.requests)
         = Len(LinksToProcess(call.out, KeysInOrder(NoLinks, call.links, <<>>)))

\* The requests made for pages of type t, in the order they were made.
RequestsOfType(t) ==
    SelectSeq(call.requests, LAMBDA r : r.document_type = t)

\* C31: of each type's candidates, which find_links lists by descending
\* confidence, only the first five are requested, in that order, each once;
\* a candidate beyond the fifth is never requested and no document comes
\* from it.
C31_FetchCap ==
    "requests" \in DOMAIN call =>
        \A t \in DocTypes :
            LET reqs == RequestsOfType(t)
                cands == call.out[t]
            IN  /\ Len(reqs) <= LinksLimit
                /\ Len(reqs) <= Len(cands)
                /\ \A k \in DOMAIN reqs : reqs[k].url = cands[k].url
                /\ \A k \in DOMAIN call.documents[t] :
                      \E j \in DOMAIN reqs :
                          call.documents[t][k].url = reqs[j].url
                /\ ProcessDocumentsReturned =>
                      Len(reqs) = (IF Len(cands) < LinksLimit THEN Len(cands)
                                   ELSE LinksLimit)

\* C31 witness: six candidates of one type, a link by text before links by
\* href among them; the loop is over after five requests, the first for
\* the best candidate, which is not the first link of the page.
C31_Witness ==
    /\ ProcessDocumentsReturned
    /\ Len(call.out["privacy"]) = 6
    /\ Len(RequestsOfType("privacy")) = 5
    /\ call.out["privacy"][6].confidence_score = 80
    /\ call.out["privacy"][5].confidence_score = 80
    /\ call.requests[1].url # call.arg[1].url
    /\ Len(call.documents["privacy"]) = 5

\* A text of at least 100 characters and 20 words, 10 of them longer than
\* four characters.
PassedValidation(t) ==
    TextOf(t).len >= 100 /\ TextOf(t).words >= 20 /\ TextOf(t).long_words >= 10

\* C32: every text in the document cache and in a requester's documents
\* has at least 100 characters and 20 words, 10 of them longer than four
\* characters; a page whose text failed validation left no row with the
\* session that fetched it, and the session did not fail for it.
C32_InvalidNeverCached ==
    /\ \A r \in gdocs : PassedValidation(r.raw_text)
    /\ \A d \in documents : PassedValidation(d.raw_text)
    /\ \A s \in DOMAIN task :
          /\ \A d \in task[s].tx.docs : PassedValidation(d.raw_text)
          /\ \A i \in task[s].invalid :
                \A d \in documents \cup task[s].tx.docs :
                    d.session_id = s => d.url # PageUrl(task[s].url.host, i)
          /\ (task[s].invalid # {} /\ task[s].pc = "done")
                => sessions[s].status = "COMPLETED"

\* C32 witness: a session met a page without text, finished COMPLETED and
\* holds a document of another page, which is in the document cache.
C32_Witness ==
    \E s \in DOMAIN task :
        /\ task[s].invalid # {}
        /\ task[s].pc = "done"
        /\ sessions[s].status = "COMPLETED"
        /\ \E d \in documents : d.session_id = s
        /\ gdocs # {}

(***************************************************************************)
(* SpecParse: a provider's raw output, parsed and stored.  A response is a *)
(* sequence of pieces: code fences, prose and JSON values.  A document     *)
(* text is known by its numbers of words and of sentence ends; numbers of  *)
(* a response are all 7; average_words_per_sentence is in hundredths.      *)
(***************************************************************************)
MeasurementFields ==
    {"word_count", "sentence_count", "average_words_per_sentence",
     "flesch_reading_ease", "flesch_kincaid_grade", "automated_readability_index",
     "sentiment_score", "keyword_density", "legal_clause_count",
     "risk_indicator_score"}
BasicFields == {"word_count", "sentence_count", "average_words_per_sentence"}

\* The markers: three backticks followed by json, and three backticks.
FenceJson == [kind |-> "fence json"]
Fence == [kind |-> "fence"]
Prose(summary, one_sentence) ==
    [kind |-> "prose", summary |-> summary, one_sentence |-> one_sentence]
Json(value) == [kind |-> "json", value |-> value]

\* A JSON object: its top-level keys other than "measurements", and under
\* "measurements" nothing ({}), or a value that is an object with the given
\* fields or is no object.
JsonObject(keys, measurements) ==
    [type |-> "object", keys |-> keys, measurements |-> measurements]
MeasurementsObject(fields) == [object |-> TRUE, fields |-> fields]
JsonArray == [type |-> "array", keys |-> {}, measurements |-> {}]

\* round(n / d, 2), in hundredths.
Round2(n, d) == (200 * n + d) \div (2 * d)

\* The statistics both parsers take from the document's text.
TextStats(original_text) ==
    LET word_count == original_text.words
        sentence_count == original_text.sentences
    IN  [word_count |-> word_count,
         sentence_count |-> sentence_count,
         average_words_per_sentence |->
             Round2(word_count, IF sentence_count > 1 THEN sentence_count ELSE 1)]

\* The removal of the markdown markers, lines 141-147.
StripMarkers(response_text) ==
    LET t1 == IF response_text # <<>> /\ Head(response_text).kind = "fence json"
              THEN Tail(response_text) ELSE response_text
        t2 == IF t1 # <<>> /\ Head(t1).kind = "fence" THEN Tail(t1) ELSE t1
    IN  IF t2 # <<>> /\ t2[Len(t2)].kind = "fence"
        THEN SubSeq(t2, 1, Len(t2) - 1) ELSE t2

\* json.loads: the value, or nothing for a JSONDecodeError.
json_loads(text) ==
    IF Len(text) = 1 /\ text[1].kind = "json" THEN {text[1].value} ELSE {}

\* _extract_summary and _extract_one_sentence: the regular expression finds
\* a quoted summary in the prose, or the stock sentence is returned.
_extract_summary(text) ==
    IF \E k \in DOMAIN text : text[k].kind = "prose" /\ text[k].summary
    THEN "extracted" ELSE "Summary extracted from analysis."
_extract_one_sentence(text) ==
    IF \E k \in DOMAIN text : text[k].kind = "prose" /\ text[k].one_sentence
    THEN "extracted" ELSE "Document analysis completed."

\* The measurements of _regex_parse_response and of _fallback_analysis.
StockMeasurements(original_text) ==
    [f \in MeasurementFields |->
        IF f \in BasicFields THEN TextStats(original_text)[f]
        ELSE IF f = "risk_indicator_score" THEN 50
        ELSE 0]

\* Mutant of _regex_parse_response: the measurements lack the text's own
\* statistics.
_regex_parse_response_NoStats(response_text, original_text) ==
    [summary_100_words |-> _extract_summary(response_text),
     summary_one_sentence |-> _extract_one_sentence(response_text),
     word_frequency |-> "{}",
     measurements |-> [f \in MeasurementFields |->
                          IF f = "risk_indicator_score" THEN 50 ELSE 0]]

_regex_parse_response(response_text, original_text) ==
    [summary_100_words |-> _extract_summary(response_text),
     summary_one_sentence |-> _extract_one_sentence(response_text),
     word_frequency |-> "{}",
     measurements |-> StockMeasurements(original_text)]

\* GeminiService._fallback_analysis
_fallback_analysis(text) ==
    [summary_100_words |-> "Unable to generate summary. Please try again later.",
     summary_one_sentence |-> "Analysis unavailable.",
     word_frequency |-> "{}",
     measurements |-> StockMeasurements(text)]

\* _parse_response of either service: the dictionary returned, or the
\* exception that leaves the function.
_parse_response(response_text, original_text) ==
    LET loaded == json_loads(StripMarkers(response_text))
        result == CHOOSE v \in loaded : TRUE
        given == IF result.measurements = {} THEN {}
                 ELSE (CHOOSE m \in result.measurements : TRUE).fields
    IN  IF loaded = {}
        THEN [raised |-> {},
              result |-> {_regex_parse_response(response_text, original_text)}]
        ELSE IF result.type # "object"
        THEN [raised |-> {"TypeError"}, result |-> {}]
        ELSE IF result.measurements # {}
                /\ ~(CHOOSE m \in result.measurements : TRUE).object
        THEN [raised |-> {"AttributeError"}, result |-> {}]
        ELSE [raised |-> {},
              result |->
                {[summary_100_words |->
                      IF "summary_100_words" \in result.keys
                      THEN "given" ELSE "Analysis pending...",
                  summary_one_sentence |->
                      IF "summary_one_sentence" \in result.keys
                      THEN "given" ELSE "Analysis pending...",
                  word_frequency |->
                      IF "word_frequency" \in result.keys THEN "given" ELSE "{}",
                  measurements |->
                      [f \in given \cup BasicFields |->
                          IF f \in given THEN 7 ELSE TextStats(original_text)[f]]]}]

\* analyze_document after the API call returned response_text: Groq lets
\* an exception of the parser pass, Gemini answers it with the placeholder;
\* a result is put into Redis.
analyze_document(provider, response_text, original_text) ==
    LET parsed == _parse_response(response_text, original_text)
    IN  IF parsed.raised = {}
        THEN [raised |-> {}, result |-> parsed.result, cached |-> TRUE]
        ELSE IF provider = "gemini"
        THEN [raised |-> {}, result |-> {_fallback_analysis(original_text)},
              cached |-> FALSE]
        ELSE [raised |-> parsed.raised, result |-> {}, cached |-> FALSE]

\* The columns store_analysis and crawl_task fill from the dictionary.
AnalysisColumns(analysis_data) ==
    [summary_100_words |-> analysis_data.summary_100_words,
     summary_one_sentence |-> analysis_data.summary_one_sentence,
     word_frequency |-> analysis_data.word_frequency,
     measurements |-> analysis_data.measurements]

\* Measurement objects of a response: none of the fields, all, the three
\* of the text's statistics, the other seven, one, and all with one more.
MeasurementSets ==
    {{}, MeasurementFields, BasicFields, MeasurementFields \ BasicFields,
     {"word_count"}, MeasurementFields \cup {"readability"}}
SummaryKeys == {"summary_100_words", "summary_one_sentence", "word_frequency"}
JsonValues ==
    {JsonObject(keys, m) :
        keys \in {{}, SummaryKeys},
        m \in {{}, {[object |-> FALSE, fields |-> {}]}}
              \cup {{MeasurementsObject(fs)} : fs \in MeasurementSets}}
    \cup {JsonArray}
Bodies ==
    {<<Json(v)>> : v \in JsonValues}
    \cup {<<Prose(s, o)>> : s \in BOOLEAN, o \in BOOLEAN}
    \cup {<<Prose(FALSE, TRUE), Json(JsonObject(SummaryKeys,
                                        {MeasurementsObject(MeasurementFields)}))>>,
          <<>>}
Responses ==
    {open \o body \o close :
        open \in {<<>>, <<FenceJson>>, <<Fence>>, <<FenceJson, Fence>>,
                  <<Prose(FALSE, FALSE), Fence>>},
        body \in Bodies,
        close \in {<<>>, <<Fence>>}}
OriginalTexts ==
    {[words |-> 120, sentences |-> 0], [words |-> 120, sentences |-> 7],
     [words |-> 100, sentences |-> 8]}

InitParse ==
    /\ InitState
    /\ settings = AllKeys
    /\ world = QuietWorld
    /\ \E provider \in Providers, response_text \in Responses,
          text \in OriginalTexts :
          call = [arg |-> [provider |-> provider, response_text |-> response_text,
                           text |-> text],
                  pc |-> "response", out |-> {}, stored |-> {}]

\* groq_service lines 83-92 and gemini_service lines 63-77: the response is
\* parsed and the result is cached and returned.
AnalyzeDocument ==
    /\ call.pc = "response"
    /\ call' = [call EXCEPT
          !.pc = "analyzed",
          !.out = {analyze_document(call.arg.provider, call.arg.response_text,
                                    call.arg.text)}]
    /\ UNCHANGED <<cacheVars, clockVars, nops, wk, settings, world, sessions,
                   documents, analysis_results, task, redis, att, gemini_uses,
                   http>>

\* crawler.py lines 299-323: a returned result is stored in the analysis
\* cache and in the requester's AnalysisResult.
StoreResult ==
    /\ call.pc = "analyzed"
    /\ \E o \in call.out :
          /\ o.raised = {}
          /\ call' = [call EXCEPT
                !.pc = "stored",
                !.stored = {AnalysisColumns(r) : r \in o.result}]
    /\ UNCHANGED <<cacheVars, clockVars, nops, wk, settings, world, sessions,
                   documents, analysis_results, task, redis, att, gemini_uses,
                   http>>

NextParse ==
    \/ AnalyzeDocument
    \/ StoreResult

SpecParse == InitParse /\ [][NextParse]_vars

\* The raw output is JSON once its markers are stripped.
Parseable == json_loads(StripMarkers(call.arg.response_text)) # {}

\* C33: whatever parseable JSON the provider returned, a stored analysis
\* has a measurements object with exactly the ten named fields.
C33_TenMeasurements ==
    (call.pc = "stored" /\ Parseable) =>
        \A row \in call.stored : DOMAIN row.measurements = MeasurementFields

\* The outcome is a success that was put into Redis, with two best-effort
\* summaries and the ten measurements: the three statistics of the source
\* text, `risk` under risk_indicator_score, and 0 under the other six.
DegradedResult(o, risk) ==
    /\ o.raised = {}
    /\ o.cached
    /\ \A r \in o.result :
          /\ r.summary_100_words \in {"extracted", "Summary extracted from analysis."}
          /\ r.summary_one_sentence \in {"extracted", "Document analysis completed."}
          /\ DOMAIN r.measurements = MeasurementFields
          /\ r.measurements["word_count"] = call.arg.text.words
          /\ r.measurements["sentence_count"] = call.arg.text.sentences
          /\ \E d \in {IF call.arg.text.sentences > 1 THEN call.arg.text.sentences
                       ELSE 1} :
                /\ 2 * (r.measurements["average_words_per_sentence"] * d
                          - 100 * call.arg.text.words) <= d
                /\ 2 * (100 * call.arg.text.words
                          - r.measurements["average_words_per_sentence"] * d) <= d
          /\ r.measurements["risk_indicator_score"] = risk
          /\ \A f \in MeasurementFields \ (BasicFields \cup {"risk_indicator_score"}) :
                r.measurements[f] = 0

\* C34 as stated: raw output that is no JSON after the markers are stripped
\* gives a successful result whose measurements are the three statistics
\* of the source text and 0 for the other seven, and it is stored.
C34_DegradedAllZero ==
    (call.pc \in {"analyzed", "stored"} /\ ~Parseable) =>
        /\ \A o \in call.out : DegradedResult(o, 0)
        /\ call.pc = "stored" =>
              call.stored = {AnalysisColumns(r) : r \in UNION {o.result : o \in call.out}}

\* C34, amended: raw output that is no JSON after the markers are stripped
\* gives a successful result whose measurements are the three statistics
\* of the source text, 50 for risk_indicator_score and 0 for the other six,
\* and it is stored.
C34_DegradedParse ==
    (call.pc \in {"analyzed", "stored"} /\ ~Parseable) =>
        /\ \A o \in call.out : DegradedResult(o, 50)
        /\ call.pc = "stored" =>
              call.stored = {AnalysisColumns(r) : r \in UNION {o.result : o \in call.out}}

\* C34 witness: fenced prose with a quoted summary, about a text of seven
\* sentences, was parsed by the regular expressions and stored.
C34_Witness ==
    /\ call.pc = "stored"
    /\ ~Parseable
    /\ Len(call.arg.response_text) = 2
    /\ call.arg.response_text[1].kind = "fence json"
    /\ call.arg.text.sentences = 7
    /\ \E row \in call.stored :
          /\ row.summary_100_words = "extracted"
          /\ row.measurements["average_words_per_sentence"] = 1714

\* C35: after a committed store_document(document_url, ..., base_url = b)
\* the entry of document_url has base_url = normalize_base_url(b) and
\* find_cached_documents(b) returns it, also when the entry existed from a
\* crawl of another base URL.
C35_StoreSetsBase ==
    [][\A url \in DocUrls, text \in Texts, pg \in PageArgs :
          StoreDocumentCall(url, pg.type, text, pg.base, pg.title, split_len(text))
              => \A r \in DocsByUrl(gdocs', url) :
                    /\ r.base_url = normalize_base_url(pg.base)
                    /\ r \in find_cached_documents(gdocs', pg.base, {}, now)]_vars

\* C36: when a crawl without force_refresh has ended COMPLETED, no document
\* of its base URL whose page it could fetch is stale or was last fetched
\* more than the validity window before the crawl began: a document that
\* was stale or expired then has been fetched again, whether or not other
\* documents of the base URL were still fresh.
C36_ExpiredRefreshed ==
    \A s \in SessionIds :
        (/\ task[s].pc = "done"
         /\ sessions[s].status = "COMPLETED"
         /\ ~task[s].force_refresh)
        => \A r \in gdocs :
              (/\ r.base_url = normalize_base_url(task[s].url)
               /\ r.document_url.path \in 1..world.pages
               /\ r.document_url.path \notin task[s].dropped \cup task[s].invalid)
              => /\ r.crawl_status = "fresh"
                 /\ r.last_crawled >= task[s].started - CACHE_VALIDITY_DAYS

(***************************************************************************)
(* SpecShare: crawl_task in two server processes at once, one session      *)
(* each, on a site with one document page.  Each process has its own       *)
(* database session; the statements of the two interleave, and a provider  *)
(* call takes as long as it takes.  Nothing fails but the database's       *)
(* constraints.                                                            *)
(***************************************************************************)
shareFixed == <<now, ticks, nops, nchanged, settings, world, task, redis, att,
                gemini_uses, http, call>>

SharedSite == Url("https", FALSE, 2, 0)

\* The locals of crawl_task in a process; ars are the AnalysisResult rows
\* added to its database session and not yet committed.
ShareLocals(s) ==
    [pc |-> "crawl", s |-> s, doc |-> {}, existing |-> {}, todo |-> <<>>,
     idx |-> 1, analysis |-> {}, ars |-> {}, analyzed_count |-> 0,
     missed |-> {}, store_errors |-> 0]

\* crawler.py lines 45-110 and 164-165: the session row, PROCESSING, and the
\* lookup in the document cache; on a hit the requester's documents are
\* made from the cached rows and committed.
ShareBegin(w) ==
    /\ wk[w].pc = "idle"
    /\ sessions' = Append(sessions, ProcessingSession(NewSession(SharedSite)))
    /\ \E s \in {Len(sessions) + 1} :
       \E cached_docs \in {find_cached_documents(gdocs, SharedSite, CachedTypes, now)} :
       \E rows \in {RowsInOrder(cached_docs)} :
       \E docs \in {[k \in 1..Len(rows) |-> Document(s, k, FromCache(rows[k]))]} :
          IF cached_docs # {}
          THEN /\ wk' = [wk EXCEPT ![w] = [ShareLocals(s) EXCEPT
                        !.pc = "analyze",
                        !.todo = [k \in 1..Len(rows) |->
                                     DocInfo(docs[k], {rows[k].id}, FromCache(rows[k]))]]]
               /\ documents' = documents \cup {docs[k] : k \in 1..Len(rows)}
          ELSE /\ wk' = [wk EXCEPT ![w] = ShareLocals(s)]
               /\ UNCHANGED documents
    /\ UNCHANGED <<cacheVars, analysis_results, shareFixed>>

\* crawler.py lines 114-115: the site's document page is fetched.
ShareCrawl(w) ==
    /\ wk[w].pc = "crawl"
    /\ \E text \in Texts :
          wk' = [wk EXCEPT ![w] = [@ EXCEPT
                    !.pc = "doc_query",
                    !.doc = {CrawledDocument(SharedSite.host, 1, text)}]]
    /\ UNCHANGED <<cacheVars, sessions, documents, analysis_results, shareFixed>>

\* store_document, lines 110-116: the SELECT ... WHERE document_url = url.
ShareDocQuery(w) ==
    /\ wk[w].pc = "doc_query"
    /\ \E doc \in wk[w].doc :
       \E found \in (IF DocsByUrl(gdocs, doc.url) = {} THEN {{}}
                     ELSE {{e} : e \in DocsByUrl(gdocs, doc.url)}) :
          wk' = [wk EXCEPT ![w] = [@ EXCEPT !.pc = "doc_commit", !.existing = found]]
    /\ UNCHANGED <<cacheVars, sessions, documents, analysis_results, shareFixed>>

\* store_document, lines 118-156, then crawler.py lines 137-165: the row is
\* inserted or updated and committed; the requester's Document is added
\* and committed.
ShareDocCommit(w) ==
    /\ wk[w].pc = "doc_commit"
    /\ \E l \in {wk[w]} : \E doc \in l.doc :
       \E document \in {Document(l.s, 1, doc)} :
          /\ IF l.existing = {}
             THEN /\ gdocs' = gdocs \cup
                        {NewDocument(nextId, doc.url, doc.document_type, doc.text,
                                     SharedSite, doc.title, doc.word_count, now)}
                  /\ nextId' = nextId + 1
                  /\ wk' = [wk EXCEPT ![w] = [l EXCEPT
                        !.pc = "analyze", !.existing = {},
                        !.todo = <<DocInfo(document, {nextId}, doc)>>]]
             ELSE /\ \E e \in l.existing, cur \in gdocs :
                        /\ cur.id = e.id
                        /\ gdocs' = (gdocs \ {cur}) \cup
                             {FlushUpdate(cur, e,
                                 UpdatedDocument(e, doc.text, doc.title,
                                                 doc.word_count, now))}
                        /\ wk' = [wk EXCEPT ![w] = [l EXCEPT
                              !.pc = "analyze", !.existing = {},
                              !.todo = <<DocInfo(document, {e.id}, doc)>>]]
                  /\ UNCHANGED nextId
          /\ documents' = documents \cup {document}
    /\ UNCHANGED <<ganalysis, nchanged, sessions, analysis_results, shareFixed>>

\* crawler.py lines 178-222: find_analysis; a row that is found gives the
\* requester's AnalysisResult, otherwise Groq is called.
ShareLookup(w) ==
    /\ wk[w].pc = "analyze"
    /\ wk[w].idx <= Len(wk[w].todo)
    /\ \E l \in {wk[w]} : \E d \in {l.todo[l.idx]} :
       \E found \in {find_analysis(ganalysis, d.url, d.text_hash)} :
          IF found # {}
          THEN \E a \in found :
                  wk' = [wk EXCEPT ![w] = [l EXCEPT
                            !.ars = @ \cup {AnalysisResult(d.document, a.content)},
                            !.analyzed_count = @ + 1,
                            !.idx = @ + 1]]
          ELSE wk' = [wk EXCEPT ![w] = [l EXCEPT
                         !.pc = "a_query",
                         !.analysis = {[by |-> "groq", of |-> d.text]},
                         !.missed = @ \cup {d.url}]]
    /\ UNCHANGED <<cacheVars, sessions, documents, analysis_results, shareFixed>>

\* store_analysis, lines 78-81: the SELECT ... WHERE document_url = url.
ShareStoreQuery(w) ==
    /\ wk[w].pc = "a_query"
    /\ \E d \in {wk[w].todo[wk[w].idx]} :
       \E found \in (IF AnalysesByUrl(ganalysis, d.url) = {} THEN {{}}
                     ELSE {{e} : e \in AnalysesByUrl(ganalysis, d.url)}) :
          wk' = [wk EXCEPT ![w] = [@ EXCEPT !.pc = "a_commit", !.existing = found]]
    /\ UNCHANGED <<cacheVars, sessions, documents, analysis_results, shareFixed>>

\* store_analysis, lines 83-130, then crawler.py lines 311-326: the row is
\* inserted or updated and committed, together with what the database
\* session holds; a commit that the table's constraints refuse is rolled
\* back and the error is swallowed.  Then the requester's AnalysisResult is
\* added.
ShareStoreCommit(w) ==
    /\ wk[w].pc = "a_commit"
    /\ \E l \in {wk[w]} : \E d \in {l.todo[l.idx]} :
       \E data \in l.analysis, gid \in d.global_document :
       \E rows \in (IF l.existing = {}
                    THEN {ganalysis \cup {NewAnalysis(nextId, gid, d.url, d.text_hash,
                                                      data, "groq")}}
                    ELSE {(ganalysis \ {cur}) \cup
                            {FlushUpdate(cur, e,
                                UpdatedAnalysis(e, gid, d.text_hash, data, "groq",
                                                FALSE, now))} :
                            e \in l.existing,
                            cur \in {c \in ganalysis : \E x \in l.existing : c.id = x.id}}) :
          IF AnalysisConstraintsOk(rows, gdocs)
          THEN /\ ganalysis' = rows
               /\ nextId' = nextId + 1
               /\ analysis_results' = analysis_results \cup l.ars
               /\ wk' = [wk EXCEPT ![w] = [l EXCEPT
                     !.pc = "analyze", !.existing = {}, !.analysis = {},
                     !.ars = {AnalysisResult(d.document, data)},
                     !.analyzed_count = @ + 1,
                     !.idx = @ + 1]]
          ELSE /\ wk' = [wk EXCEPT ![w] = [l EXCEPT
                     !.pc = "analyze", !.existing = {}, !.analysis = {},
                     !.ars = {AnalysisResult(d.document, data)},
                     !.analyzed_count = @ + 1,
                     !.store_errors = @ + 1,
                     !.idx = @ + 1]]
               /\ UNCHANGED <<ganalysis, nextId, analysis_results>>
    /\ UNCHANGED <<gdocs, nchanged, sessions, documents, shareFixed>>

\* crawler.py lines 338-343: the session is COMPLETED and the commit
\* writes the AnalysisResult rows still held.
ShareFinish(w) ==
    /\ wk[w].pc = "analyze"
    /\ wk[w].idx > Len(wk[w].todo)
    /\ \E l \in {wk[w]} :
          /\ sessions' = [sessions EXCEPT ![l.s] =
                             CompletedSession(@, Len(l.todo), l.analyzed_count)]
          /\ analysis_results' = analysis_results \cup l.ars
          /\ wk' = [wk EXCEPT ![w] = [l EXCEPT !.pc = "done", !.ars = {}]]
    /\ UNCHANGED <<cacheVars, documents, shareFixed>>

NextShare ==
    \/ \E w \in Workers : ShareBegin(w)
    \/ \E w \in Workers : ShareCrawl(w)
    \/ \E w \in Workers : ShareDocQuery(w)
    \/ \E w \in Workers : ShareDocCommit(w)
    \/ \E w \in Workers : ShareLookup(w)
    \/ \E w \in Workers : ShareStoreQuery(w)
    \/ \E w \in Workers : ShareStoreCommit(w)
    \/ \E w \in Workers : ShareFinish(w)

SpecShare == InitCache /\ [][NextShare]_vars

\* Both sessions missed the analysis cache for the document at url, stored
\* an analysis and have ended.
BothMissed(url) ==
    \A w \in Workers : wk[w].pc = "done" /\ url \in wk[w].missed

\* C37: when two sessions that ran at the same time both missed the
\* analysis cache for a document and both stored an analysis, the analysis
\* cache holds exactly one row for that document_url, both sessions are
\* COMPLETED and each has its own AnalysisResult persisted.
C37_OneAnalysisAfterRace ==
    \A url \in DocUrls :
        BothMissed(url) =>
            /\ Cardinality(AnalysesByUrl(ganalysis, url)) = 1
            /\ \A w \in Workers :
                  /\ sessions[wk[w].s].status = "COMPLETED"
                  /\ \E ar \in analysis_results : ar.document_id[1] = wk[w].s

\* The same, for runs in which the document cache has one row for the URL.
C37_WithOneDocumentRow ==
    \A url \in DocUrls :
        (BothMissed(url) /\ Cardinality(DocsByUrl(gdocs, url)) = 1) =>
            /\ Cardinality(AnalysesByUrl(ganalysis, url)) = 1
            /\ \A w \in Workers :
                  /\ sessions[wk[w].s].status = "COMPLETED"
                  /\ \E ar \in analysis_results : ar.document_id[1] = wk[w].s

\* C38: once the crawl task of a session has ended, on whichever path, the
\* session is COMPLETED or FAILED; it is never left PENDING or PROCESSING.
C38_EndedTaskSettlesSession ==
    \A s \in SessionIds :
        task[s].pc \in {"done", "crashed"} =>
            sessions[s].status \in {"COMPLETED", "FAILED"}

====
